---- MODULE Spec2Model ----
(***************************************************************************)
(* Model of the RAG glue layer: the config classifier (config.ts), the     *)
(* retrieval client (ragie-client.ts) and the prompt augmentation and      *)
(* orchestrator (advanced-prompting.ts).                                   *)
(*                                                                         *)
(* Representation.                                                         *)
(*  - A JavaScript string is a sequence of one-character strings, so that  *)
(*    toLowerCase, includes, startsWith, slice, trim and the regular       *)
(*    expressions are computed character by character.                     *)
(*  - An optional field (undefined / absent) is None == << >>, a present   *)
(*    one is Some(v) == << v >>.                                           *)
(*  - A score is an integer number of thousandths (0.92 is 920), so that   *)
(*    the factor 0.8 and Math.round(score * 100) are exact on the values   *)
(*    used here (all multiples of 5 thousandths, none ending in .5 %).     *)
(*  - The opaque filter bag is passed to the backend untouched and decides *)
(*    nothing in this code; the backend is a nondeterministic environment, *)
(*    so the filter is left out of the call records.                       *)
(***************************************************************************)
EXTENDS Integers, Sequences, FiniteSets, TLC

VARIABLES
    pc,                 \* control point of the invocation in progress
    op,                 \* entry point invoked: enhance / retrieve / config / rerank
    ragieClient,        \* module-level `let ragieClient` of ragie-client.ts
    systemPromptText,   \* enhancePromptWithRAG argument
    messages,           \* enhancePromptWithRAG argument
    selectedChatModel,  \* enhancePromptWithRAG / getRagConfig argument
    queryText,          \* text extracted from the last user message
    ragConfig,          \* result of getRagConfig
    enhanced,           \* value returned by enhancePromptWithRAG
    options,            \* RetrievalOptions of the retrieveContext call
    client,             \* client handle obtained by initRagieClient
    expansionQuery,     \* generateExpansionQuery(query)
    mainCall,           \* safeRetrieve(query, ...) promise
    expansionCall,      \* safeRetrieve(expansionQuery, ...) promise
    allResults,         \* merged main + expansion results
    uniqueResults,      \* removeDuplicateResults(allResults)
    retrieved,          \* value returned by retrieveContext
    rerankQuery,        \* rerankResults argument (direct call)
    rerankInput,        \* rerankResults argument (direct call)
    rerankOutput,       \* rerankResults return value (direct call)
    rerankArgAfter,     \* the argument array as the call left it (direct call)
    raised,             \* TRUE iff an exception escaped the invocation
    formatInput,        \* formatRetrievedContext argument (direct call)
    formatOutput,       \* formatRetrievedContext return value (direct call)
    otherClient         \* client handle held by a concurrent invocation

vars == << pc, op, ragieClient, systemPromptText, messages, selectedChatModel,
           queryText, ragConfig, enhanced, options, client, expansionQuery,
           mainCall, expansionCall, allResults, uniqueResults, retrieved,
           rerankQuery, rerankInput, rerankOutput, rerankArgAfter, raised,
           formatInput, formatOutput, otherClient >>

\* ------------------------------------------------------------------------
\* Bounds of the model
\* ------------------------------------------------------------------------

\* largest topK of a direct retrieveContext call
MaxTopK == 3

\* longest result list handed to a direct rerankResults call
MaxRerankLen == 3

\* longest result list handed to a direct formatRetrievedContext call
MaxFormatLen == 3

\* ------------------------------------------------------------------------
\* Optional values and small helpers
\* ------------------------------------------------------------------------

None == << >>

Some(v) == << v >>

Min(a, b) == IF a <= b THEN a ELSE b

Max(a, b) == IF a >= b THEN a ELSE b

Range(s) == { s[i] : i \in 1..Len(s) }

\* ------------------------------------------------------------------------
\* JavaScript string primitives
\* ------------------------------------------------------------------------

UpperChars ==
    << "A", "B", "C", "D", "E", "F", "G", "H", "I", "J", "K", "L", "M",
       "N", "O", "P", "Q", "R", "S", "T", "U", "V", "W", "X", "Y", "Z" >>

LowerChars ==
    << "a", "b", "c", "d", "e", "f", "g", "h", "i", "j", "k", "l", "m",
       "n", "o", "p", "q", "r", "s", "t", "u", "v", "w", "x", "y", "z" >>

WhiteSpace == { " ", "\n", "\t", "\r" }

\* the lower-case form of each upper-case letter
lowerOf ==
    [ c \in Range(UpperChars) |->
        LowerChars[CHOOSE i \in 1..Len(UpperChars) : UpperChars[i] = c] ]

toLowerChar(c) == IF c \in DOMAIN lowerOf THEN lowerOf[c] ELSE c

\* String.prototype.toLowerCase
toLowerCase(s) ==
    IF s = << >> THEN << >> ELSE [i \in 1..Len(s) |-> toLowerChar(s[i])]

\* String.prototype.includes
includes(s, p) ==
    \/ p = << >>
    \/ \E i \in 1..(Len(s) - Len(p) + 1) :
          /\ s[i] = p[1]
          /\ SubSeq(s, i, i + Len(p) - 1) = p

\* String.prototype.startsWith
startsWith(s, p) ==
    /\ Len(p) <= Len(s)
    /\ SubSeq(s, 1, Len(p)) = p

\* String.prototype.endsWith
endsWith(s, p) ==
    /\ Len(p) <= Len(s)
    /\ SubSeq(s, Len(s) - Len(p) + 1, Len(s)) = p

\* String/Array.prototype.slice(0, n) for an integer n
slice0(s, n) ==
    IF n >= 0 THEN SubSeq(s, 1, Min(n, Len(s)))
    ELSE SubSeq(s, 1, Max(Len(s) + n, 0))

\* String.prototype.trim
trim(s) ==
    LET first == CHOOSE i \in 1..(Len(s) + 1) :
                    /\ i = Len(s) + 1 \/ s[i] \notin WhiteSpace
                    /\ \A j \in 1..(i - 1) : s[j] \in WhiteSpace
        last == CHOOSE i \in 0..Len(s) :
                   /\ i = 0 \/ s[i] \notin WhiteSpace
                   /\ \A j \in (i + 1)..Len(s) : s[j] \in WhiteSpace
    IN  IF first > last THEN << >> ELSE SubSeq(s, first, last)

\* Array.prototype.join over a list of strings
RECURSIVE join(_, _)
join(strs, sep) ==
    IF strs = << >> THEN << >>
    ELSE IF Len(strs) = 1 THEN strs[1]
    ELSE strs[1] \o sep \o join(Tail(strs), sep)

DigitChars == << "0", "1", "2", "3", "4", "5", "6", "7", "8", "9" >>

\* decimal rendering of a natural number inside a template literal
RECURSIVE numberToString(_)
numberToString(n) ==
    IF n < 10 THEN << DigitChars[n + 1] >>
    ELSE numberToString(n \div 10) \o << DigitChars[(n % 10) + 1] >>

\* a regular expression /(a|b|...)/i tested against q
testAny(q, alternatives) ==
    LET lowered == toLowerCase(q) IN
    \E a \in alternatives : includes(lowered, a)

\* a regular expression /^(a|b|...)/i tested against q
testPrefixAny(q, alternatives) ==
    LET lowered == toLowerCase(q) IN
    \E a \in alternatives : startsWith(lowered, a)

\* ------------------------------------------------------------------------
\* config.ts
\* ------------------------------------------------------------------------

reasoningModel == "chat-model-reasoning"

defaultModel == "chat-model"

DEFAULT_RAG_CONFIG ==
    [ enabled |-> TRUE,
      topK |-> 3,
      includeMetadata |-> TRUE,
      formatOptions |-> [ maxCharsPerDoc |-> 1500, hideSource |-> FALSE ] ]

conversationalOpeners ==
    { << "h", "i" >>,
      << "h", "e", "l", "l", "o" >>,
      << "h", "e", "y" >>,
      << "w", "h", "a", "t", "'", "s", " ", "u", "p" >>,
      << "h", "o", "w", " ", "a", "r", "e", " ", "y", "o", "u" >> }

factualPhrases ==
    { << "w", "h", "a", "t", " ", "i", "s" >>,
      << "w", "h", "o", " ", "i", "s" >>,
      << "w", "h", "e", "n", " ", "d", "i", "d" >>,
      << "w", "h", "e", "r", "e", " ", "i", "s" >>,
      << "w", "h", "y", " ", "i", "s" >>,
      << "h", "o", "w", " ", "d", "o", "e", "s" >> }

instructionalWords ==
    { << "w", "r", "i", "t", "e" >>,
      << "g", "e", "n", "e", "r", "a", "t", "e" >>,
      << "c", "r", "e", "a", "t", "e" >>,
      << "b", "u", "i", "l", "d" >>,
      << "i", "m", "p", "l", "e", "m", "e", "n", "t" >>,
      << "c", "o", "d", "e" >>,
      << "d", "e", "v", "e", "l", "o", "p" >> }

isConversational(query) == testPrefixAny(query, conversationalOpeners)

isFactual(query) == testAny(query, factualPhrases)

isInstructional(query) == testAny(query, instructionalWords)

\* getRagConfig with the factual test ahead of the greeting test
getRagConfig_factualFirst(query, model) ==
    IF isFactual(query)
    THEN [ DEFAULT_RAG_CONFIG EXCEPT !.topK = 5 ]
    ELSE IF isConversational(query)
    THEN [ DEFAULT_RAG_CONFIG EXCEPT !.enabled = FALSE ]
    ELSE IF isInstructional(query)
    THEN [ DEFAULT_RAG_CONFIG EXCEPT !.topK = 4,
                                     !.formatOptions.maxCharsPerDoc = 2000 ]
    ELSE DEFAULT_RAG_CONFIG

\* getRagConfig with the instructional test ahead of the factual test
getRagConfig_instructionalFirst(query, model) ==
    IF isConversational(query)
    THEN [ DEFAULT_RAG_CONFIG EXCEPT !.enabled = FALSE ]
    ELSE IF isInstructional(query)
    THEN [ DEFAULT_RAG_CONFIG EXCEPT !.topK = 4,
                                     !.formatOptions.maxCharsPerDoc = 2000 ]
    ELSE IF isFactual(query)
    THEN [ DEFAULT_RAG_CONFIG EXCEPT !.topK = 5 ]
    ELSE DEFAULT_RAG_CONFIG

getRagConfig(query, model) ==
    IF isConversational(query)
    THEN [ DEFAULT_RAG_CONFIG EXCEPT !.enabled = FALSE ]
    ELSE IF isFactual(query)
    THEN [ DEFAULT_RAG_CONFIG EXCEPT !.topK = 5 ]
    ELSE IF isInstructional(query)
    THEN [ DEFAULT_RAG_CONFIG EXCEPT !.topK = 4,
                                     !.formatOptions.maxCharsPerDoc = 2000 ]
    ELSE IF model = reasoningModel
    THEN [ DEFAULT_RAG_CONFIG EXCEPT !.includeMetadata = TRUE,
                                     !.formatOptions.hideSource = FALSE ]
    ELSE DEFAULT_RAG_CONFIG

\* ------------------------------------------------------------------------
\* advanced-prompting.ts: reranking, expansion query, instruction blocks
\* ------------------------------------------------------------------------

\* `x.score || d`: an absent score and the score 0 are both falsy
scoreOr(score, d) ==
    IF score = None THEN d ELSE IF score[1] = 0 THEN d ELSE score[1]

containsQuery(query, result) ==
    includes(toLowerCase(result.content), toLowerCase(query))

\* rerankCompare with the score difference the wrong way round
rerankCompare_ascending(query, a, b) ==
    IF containsQuery(query, a) /\ ~containsQuery(query, b) THEN -1
    ELSE IF ~containsQuery(query, a) /\ containsQuery(query, b) THEN 1
    ELSE scoreOr(a.score, 0) - scoreOr(b.score, 0)

\* the comparator handed to Array.prototype.sort: negative when a sorts
\* before b, positive when b sorts before a, 0 when they tie
rerankCompare(query, a, b) ==
    IF containsQuery(query, a) /\ ~containsQuery(query, b) THEN -1
    ELSE IF ~containsQuery(query, a) /\ containsQuery(query, b) THEN 1
    ELSE scoreOr(b.score, 0) - scoreOr(a.score, 0)

\* insertion of x into a sorted list, after every element it does not
\* strictly precede (Array.prototype.sort is a stable sort)
RECURSIVE insertSorted(_, _, _)
insertSorted(query, sorted, x) ==
    IF sorted = << >> THEN << x >>
    ELSE IF rerankCompare(query, x, sorted[1]) < 0
    THEN << x >> \o sorted
    ELSE << sorted[1] >> \o insertSorted(query, Tail(sorted), x)

RECURSIVE stableSort(_, _)
stableSort(query, results) ==
    IF results = << >> THEN << >>
    ELSE insertSorted(query,
                      stableSort(query, SubSeq(results, 1, Len(results) - 1)),
                      results[Len(results)])

rerankResults(query, results) ==
    IF Len(results) <= 1 THEN results
    ELSE stableSort(query, results)

\* the array passed to rerankResults as the call leaves it: the sort runs on
\* the copy [...results], never on the argument
rerankArgument(query, results) == results

comparisonWords ==
    { << "c", "o", "m", "p", "a", "r", "e" >>, << "d", "i", "f", "f", "e", "r", "e", "n", "c", "e" >>, << "s", "i", "m", "i", "l", "a", "r", "i", "t", "i", "e", "s" >>, << "v", "e", "r", "s", "u", "s" >>, << "v", "s" >> }

howToWords ==
    { << "h", "o", "w", " ", "t", "o" >>, << "s", "t", "e", "p", "s" >>, << "g", "u", "i", "d", "e" >>, << "t", "u", "t", "o", "r", "i", "a", "l" >>, << "i", "n", "s", "t", "r", "u", "c", "t", "i", "o", "n", "s" >> }

codeWords ==
    { << "c", "o", "d", "e" >>, << "f", "u", "n", "c", "t", "i", "o", "n" >>, << "p", "r", "o", "g", "r", "a", "m" >>, << "i", "m", "p", "l", "e", "m", "e", "n", "t" >>, << "s", "c", "r", "i", "p", "t" >> }

summaryWords ==
    { << "s", "u", "m", "m", "a", "r", "i", "z", "e" >>, << "s", "u", "m", "m", "a", "r", "y" >>, << "o", "v", "e", "r", "v", "i", "e", "w" >>, << "b", "r", "i", "e", "f" >> }

comparisonInstructions ==
    << "\n", "C", "O", "M", "P", "A", "R", "I", "S", "O", "N", " ", "I", "N", "S", "T", "R", "U", "C", "T",
       "I", "O", "N", "S", ":", "\n", "-", " ", "C", "r", "e", "a", "t", "e", " ", "a", " ", "s", "t", "r",
       "u", "c", "t", "u", "r", "e", "d", " ", "c", "o", "m", "p", "a", "r", "i", "s", "o", "n", " ", "b",
       "e", "t", "w", "e", "e", "n", " ", "t", "h", "e", " ", "i", "t", "e", "m", "s", " ", "m", "e", "n",
       "t", "i", "o", "n", "e", "d", " ", "i", "n", " ", "t", "h", "e", " ", "q", "u", "e", "r", "y", "\n",
       "-", " ", "I", "n", "c", "l", "u", "d", "e", " ", "k", "e", "y", " ", "s", "i", "m", "i", "l", "a",
       "r", "i", "t", "i", "e", "s", " ", "a", "n", "d", " ", "d", "i", "f", "f", "e", "r", "e", "n", "c",
       "e", "s", "\n", "-", " ", "U", "s", "e", " ", "a", " ", "t", "a", "b", "l", "e", " ", "f", "o", "r",
       "m", "a", "t", " ", "w", "h", "e", "n", " ", "a", "p", "p", "r", "o", "p", "r", "i", "a", "t", "e",
       "\n", "-", " ", "P", "r", "e", "s", "e", "n", "t", " ", "b", "a", "l", "a", "n", "c", "e", "d", " ",
       "i", "n", "f", "o", "r", "m", "a", "t", "i", "o", "n", " ", "a", "b", "o", "u", "t", " ", "a", "l",
       "l", " ", "i", "t", "e", "m", "s", " ", "b", "e", "i", "n", "g", " ", "c", "o", "m", "p", "a", "r",
       "e", "d" >>

instructionalInstructions ==
    << "\n", "I", "N", "S", "T", "R", "U", "C", "T", "I", "O", "N", "A", "L", " ", "C", "O", "N", "T", "E",
       "N", "T", " ", "G", "U", "I", "D", "E", "L", "I", "N", "E", "S", ":", "\n", "-", " ", "P", "r", "o",
       "v", "i", "d", "e", " ", "c", "l", "e", "a", "r", " ", "s", "t", "e", "p", "-", "b", "y", "-", "s",
       "t", "e", "p", " ", "i", "n", "s", "t", "r", "u", "c", "t", "i", "o", "n", "s", "\n", "-", " ", "N",
       "u", "m", "b", "e", "r", " ", "e", "a", "c", "h", " ", "s", "t", "e", "p", "\n", "-", " ", "I", "n",
       "c", "l", "u", "d", "e", " ", "i", "m", "p", "o", "r", "t", "a", "n", "t", " ", "c", "a", "u", "t",
       "i", "o", "n", "s", " ", "o", "r", " ", "w", "a", "r", "n", "i", "n", "g", "s", "\n", "-", " ", "A",
       "d", "d", " ", "e", "x", "a", "m", "p", "l", "e", "s", " ", "w", "h", "e", "r", "e", " ", "h", "e",
       "l", "p", "f", "u", "l", "\n", "-", " ", "C", "o", "n", "s", "i", "d", "e", "r", " ", "b", "o", "t",
       "h", " ", "b", "e", "g", "i", "n", "n", "e", "r", "s", " ", "a", "n", "d", " ", "m", "o", "r", "e",
       " ", "e", "x", "p", "e", "r", "i", "e", "n", "c", "e", "d", " ", "u", "s", "e", "r", "s" >>

codeInstructions ==
    << "\n", "C", "O", "D", "E", " ", "G", "E", "N", "E", "R", "A", "T", "I", "O", "N", " ", "G", "U", "I",
       "D", "E", "L", "I", "N", "E", "S", ":", "\n", "-", " ", "W", "r", "i", "t", "e", " ", "c", "l", "e",
       "a", "n", ",", " ", "w", "e", "l", "l", "-", "c", "o", "m", "m", "e", "n", "t", "e", "d", " ", "c",
       "o", "d", "e", "\n", "-", " ", "I", "n", "c", "l", "u", "d", "e", " ", "e", "x", "p", "l", "a", "n",
       "a", "t", "i", "o", "n", "s", " ", "f", "o", "r", " ", "c", "o", "m", "p", "l", "e", "x", " ", "l",
       "o", "g", "i", "c", "\n", "-", " ", "C", "o", "n", "s", "i", "d", "e", "r", " ", "e", "d", "g", "e",
       " ", "c", "a", "s", "e", "s", " ", "a", "n", "d", " ", "e", "r", "r", "o", "r", " ", "h", "a", "n",
       "d", "l", "i", "n", "g", "\n", "-", " ", "O", "p", "t", "i", "m", "i", "z", "e", " ", "f", "o", "r",
       " ", "r", "e", "a", "d", "a", "b", "i", "l", "i", "t", "y", " ", "a", "n", "d", " ", "m", "a", "i",
       "n", "t", "a", "i", "n", "a", "b", "i", "l", "i", "t", "y", "\n", "-", " ", "P", "r", "o", "v", "i",
       "d", "e", " ", "u", "s", "a", "g", "e", " ", "e", "x", "a", "m", "p", "l", "e", "s", " ", "w", "h",
       "e", "r", "e", " ", "a", "p", "p", "r", "o", "p", "r", "i", "a", "t", "e" >>

summarizationInstructions ==
    << "\n", "S", "U", "M", "M", "A", "R", "I", "Z", "A", "T", "I", "O", "N", " ", "G", "U", "I", "D", "E",
       "L", "I", "N", "E", "S", ":", "\n", "-", " ", "E", "x", "t", "r", "a", "c", "t", " ", "t", "h", "e",
       " ", "k", "e", "y", " ", "p", "o", "i", "n", "t", "s", " ", "f", "r", "o", "m", " ", "t", "h", "e",
       " ", "c", "o", "n", "t", "e", "x", "t", "\n", "-", " ", "B", "e", " ", "c", "o", "n", "c", "i", "s",
       "e", " ", "b", "u", "t", " ", "c", "o", "m", "p", "r", "e", "h", "e", "n", "s", "i", "v", "e", "\n",
       "-", " ", "S", "t", "r", "u", "c", "t", "u", "r", "e", " ", "t", "h", "e", " ", "s", "u", "m", "m",
       "a", "r", "y", " ", "l", "o", "g", "i", "c", "a", "l", "l", "y", "\n", "-", " ", "M", "a", "i", "n",
       "t", "a", "i", "n", " ", "t", "h", "e", " ", "o", "r", "i", "g", "i", "n", "a", "l", " ", "m", "e",
       "a", "n", "i", "n", "g", " ", "a", "n", "d", " ", "i", "n", "t", "e", "n", "t", "\n", "-", " ", "H",
       "i", "g", "h", "l", "i", "g", "h", "t", " ", "t", "h", "e", " ", "m", "o", "s", "t", " ", "i", "m",
       "p", "o", "r", "t", "a", "n", "t", " ", "i", "n", "f", "o", "r", "m", "a", "t", "i", "o", "n" >>

promptHeader ==
    << "\n", "\n", "R", "E", "T", "R", "I", "E", "V", "E", "D", " ", "C", "O", "N", "T", "E", "X", "T", ":",
       "\n" >>

promptSeparator ==
    << "\n", "\n" >>

promptGuidelines ==
    << "\n", "\n", "I", "N", "S", "T", "R", "U", "C", "T", "I", "O", "N", "S", " ", "F", "O", "R", " ", "U",
       "S", "I", "N", "G", " ", "C", "O", "N", "T", "E", "X", "T", ":", "\n", "1", ".", " ", "U", "s", "e",
       " ", "t", "h", "e", " ", "r", "e", "t", "r", "i", "e", "v", "e", "d", " ", "c", "o", "n", "t", "e",
       "x", "t", " ", "t", "o", " ", "p", "r", "o", "v", "i", "d", "e", " ", "a", "c", "c", "u", "r", "a",
       "t", "e", " ", "a", "n", "d", " ", "i", "n", "f", "o", "r", "m", "e", "d", " ", "r", "e", "s", "p",
       "o", "n", "s", "e", "s", "\n", "2", ".", " ", "P", "r", "i", "o", "r", "i", "t", "i", "z", "e", " ",
       "i", "n", "f", "o", "r", "m", "a", "t", "i", "o", "n", " ", "f", "r", "o", "m", " ", "t", "h", "e",
       " ", "c", "o", "n", "t", "e", "x", "t", " ", "w", "h", "e", "n", " ", "d", "i", "r", "e", "c", "t",
       "l", "y", " ", "r", "e", "l", "e", "v", "a", "n", "t", " ", "t", "o", " ", "t", "h", "e", " ", "q",
       "u", "e", "r", "y", "\n", "3", ".", " ", "A", "l", "w", "a", "y", "s", " ", "e", "v", "a", "l", "u",
       "a", "t", "e", " ", "t", "h", "e", " ", "r", "e", "l", "i", "a", "b", "i", "l", "i", "t", "y", " ",
       "a", "n", "d", " ", "r", "e", "l", "e", "v", "a", "n", "c", "e", " ", "o", "f", " ", "t", "h", "e",
       " ", "c", "o", "n", "t", "e", "x", "t", " ", "i", "n", "f", "o", "r", "m", "a", "t", "i", "o", "n",
       "\n", "4", ".", " ", "W", "h", "e", "n", " ", "c", "i", "t", "i", "n", "g", " ", "i", "n", "f", "o",
       "r", "m", "a", "t", "i", "o", "n", " ", "f", "r", "o", "m", " ", "t", "h", "e", " ", "c", "o", "n",
       "t", "e", "x", "t", ",", " ", "i", "n", "d", "i", "c", "a", "t", "e", " ", "t", "h", "e", " ", "s",
       "o", "u", "r", "c", "e", " ", "i", "f", " ", "a", "v", "a", "i", "l", "a", "b", "l", "e", "\n", "5",
       ".", " ", "I", "f", " ", "t", "h", "e", " ", "c", "o", "n", "t", "e", "x", "t", " ", "i", "s", " ",
       "i", "n", "s", "u", "f", "f", "i", "c", "i", "e", "n", "t", ",", " ", "u", "s", "e", " ", "y", "o",
       "u", "r", " ", "g", "e", "n", "e", "r", "a", "l", " ", "k", "n", "o", "w", "l", "e", "d", "g", "e",
       " ", "t", "o", " ", "s", "u", "p", "p", "l", "e", "m", "e", "n", "t", "\n", "6", ".", " ", "D", "o",
       " ", "n", "o", "t", " ", "i", "n", "v", "e", "n", "t", " ", "o", "r", " ", "h", "a", "l", "l", "u",
       "c", "i", "n", "a", "t", "e", " ", "i", "n", "f", "o", "r", "m", "a", "t", "i", "o", "n", " ", "t",
       "h", "a", "t", "'", "s", " ", "n", "o", "t", " ", "i", "n", " ", "t", "h", "e", " ", "c", "o", "n",
       "t", "e", "x", "t", " ", "o", "r", " ", "y", "o", "u", "r", " ", "k", "n", "o", "w", "l", "e", "d",
       "g", "e", "\n", "7", ".", " ", "I", "f", " ", "a", "s", "k", "e", "d", " ", "a", "b", "o", "u", "t",
       " ", "t", "h", "e", " ", "s", "o", "u", "r", "c", "e", " ", "o", "f", " ", "i", "n", "f", "o", "r",
       "m", "a", "t", "i", "o", "n", ",", " ", "b", "e", " ", "t", "r", "a", "n", "s", "p", "a", "r", "e",
       "n", "t", " ", "a", "b", "o", "u", "t", " ", "w", "h", "e", "t", "h", "e", "r", " ", "i", "t", " ",
       "c", "a", "m", "e", " ", "f", "r", "o", "m", " ", "t", "h", "e", " ", "r", "e", "t", "r", "i", "e",
       "v", "e", "d", " ", "c", "o", "n", "t", "e", "x", "t", "\n", "\n", "R", "E", "S", "P", "O", "N", "S",
       "E", " ", "Q", "U", "A", "L", "I", "T", "Y", " ", "G", "U", "I", "D", "E", "L", "I", "N", "E", "S",
       ":", "\n", "-", " ", "B", "e", " ", "t", "h", "o", "r", "o", "u", "g", "h", " ", "b", "u", "t", " ",
       "c", "o", "n", "c", "i", "s", "e", "\n", "-", " ", "S", "t", "r", "u", "c", "t", "u", "r", "e", " ",
       "y", "o", "u", "r", " ", "r", "e", "s", "p", "o", "n", "s", "e", " ", "l", "o", "g", "i", "c", "a",
       "l", "l", "y", " ", "w", "i", "t", "h", " ", "a", "p", "p", "r", "o", "p", "r", "i", "a", "t", "e",
       " ", "h", "e", "a", "d", "i", "n", "g", "s", " ", "i", "f", " ", "n", "e", "e", "d", "e", "d", "\n",
       "-", " ", "U", "s", "e", " ", "e", "x", "a", "m", "p", "l", "e", "s", " ", "w", "h", "e", "n", " ",
       "t", "h", "e", "y", " ", "a", "i", "d", " ", "u", "n", "d", "e", "r", "s", "t", "a", "n", "d", "i",
       "n", "g", "\n", "-", " ", "C", "o", "n", "s", "i", "d", "e", "r", " ", "d", "i", "f", "f", "e", "r",
       "e", "n", "t", " ", "p", "e", "r", "s", "p", "e", "c", "t", "i", "v", "e", "s", " ", "w", "h", "e",
       "n", " ", "a", "p", "p", "r", "o", "p", "r", "i", "a", "t", "e", "\n", "-", " ", "F", "o", "c", "u",
       "s", " ", "o", "n", " ", "a", "n", "s", "w", "e", "r", "i", "n", "g", " ", "t", "h", "e", " ", "u",
       "s", "e", "r", "'", "s", " ", "a", "c", "t", "u", "a", "l", " ", "n", "e", "e", "d", "s", ",", " ",
       "n", "o", "t", " ", "j", "u", "s", "t", " ", "t", "h", "e", " ", "l", "i", "t", "e", "r", "a", "l",
       " ", "q", "u", "e", "r", "y", "\n", "-", " ", "I", "f", " ", "t", "h", "e", " ", "u", "s", "e", "r",
       "'", "s", " ", "q", "u", "e", "s", "t", "i", "o", "n", " ", "i", "s", " ", "u", "n", "c", "l", "e",
       "a", "r", ",", " ", "r", "e", "q", "u", "e", "s", "t", " ", "c", "l", "a", "r", "i", "f", "i", "c",
       "a", "t", "i", "o", "n", "\n" >>
generateQuerySpecificInstructions(query) ==
    IF testAny(query, comparisonWords) THEN comparisonInstructions
    ELSE IF testAny(query, howToWords) THEN instructionalInstructions
    ELSE IF testAny(query, codeWords) THEN codeInstructions
    ELSE IF testAny(query, summaryWords) THEN summarizationInstructions
    ELSE << >>

questionWords ==
    { << "w", "h", "a", "t" >>, << "w", "h", "e", "n" >>, << "w", "h", "e", "r", "e" >>, << "w", "h", "y" >>, << "w", "h", "o" >>, << "h", "o", "w" >> }

expansionPrefixQuestion ==
    << "b", "a", "c", "k", "g", "r", "o", "u", "n", "d", " ", "i", "n", "f", "o", "r", "m", "a", "t", "i", "o", "n", " " >>

expansionPrefixOther ==
    << "w", "h", "a", "t", " ", "i", "s", " " >>

\* originalQuery.replace(/\?$/, '')
stripFinalQuestionMark(q) ==
    IF endsWith(q, << "?" >>) THEN SubSeq(q, 1, Len(q) - 1) ELSE q

generateExpansionQuery(originalQuery) ==
    IF \E w \in questionWords : startsWith(toLowerCase(originalQuery), w)
    THEN expansionPrefixQuestion \o stripFinalQuestionMark(originalQuery)
    ELSE expansionPrefixOther \o originalQuery

createEnhancedRAGPrompt(basePrompt, userQuery, retrievedContext) ==
    basePrompt \o promptHeader \o retrievedContext \o promptSeparator
        \o generateQuerySpecificInstructions(userQuery) \o promptGuidelines

kb1 ==
    [ content |-> Some(
        << "R", "A", "G", " ", "(", "R", "e", "t", "r", "i", "e", "v", "a", "l", " ", "A", "u", "g", "m", "e",
           "n", "t", "e", "d", " ", "G", "e", "n", "e", "r", "a", "t", "i", "o", "n", ")", " ", "i", "s", " ",
           "a", " ", "t", "e", "c", "h", "n", "i", "q", "u", "e", " ", "t", "h", "a", "t", " ", "e", "n", "h",
           "a", "n", "c", "e", "s", " ", "L", "L", "M", " ", "o", "u", "t", "p", "u", "t", "s", " ", "b", "y",
           " ", "r", "e", "t", "r", "i", "e", "v", "i", "n", "g", " ", "r", "e", "l", "e", "v", "a", "n", "t",
           " ", "i", "n", "f", "o", "r", "m", "a", "t", "i", "o", "n", " ", "f", "r", "o", "m", " ", "e", "x",
           "t", "e", "r", "n", "a", "l", " ", "k", "n", "o", "w", "l", "e", "d", "g", "e", " ", "s", "o", "u",
           "r", "c", "e", "s", " ", "b", "e", "f", "o", "r", "e", " ", "g", "e", "n", "e", "r", "a", "t", "i",
           "n", "g", " ", "a", " ", "r", "e", "s", "p", "o", "n", "s", "e", ".", " ", "T", "h", "i", "s", " ",
           "h", "e", "l", "p", "s", " ", "g", "r", "o", "u", "n", "d", " ", "t", "h", "e", " ", "m", "o", "d",
           "e", "l", "'", "s", " ", "r", "e", "s", "p", "o", "n", "s", "e", "s", " ", "i", "n", " ", "f", "a",
           "c", "t", "u", "a", "l", ",", " ", "u", "p", "-", "t", "o", "-", "d", "a", "t", "e", " ", "i", "n",
           "f", "o", "r", "m", "a", "t", "i", "o", "n", "." >>),
      text |-> None,
      metadata |-> Some([ source |->
                            << "R", "A", "G", " ", "D", "o", "c", "u", "m", "e", "n", "t", "a", "t", "i", "o", "n" >>,
                          date |->
                            << "2", "0", "2", "3", "-", "1", "0", "-", "1", "5" >> ]),
      score |-> Some(920) ]

kb2 ==
    [ content |-> Some(
        << "P", "r", "o", "m", "p", "t", " ", "e", "n", "g", "i", "n", "e", "e", "r", "i", "n", "g", " ", "i",
           "s", " ", "t", "h", "e", " ", "p", "r", "a", "c", "t", "i", "c", "e", " ", "o", "f", " ", "d", "e",
           "s", "i", "g", "n", "i", "n", "g", " ", "a", "n", "d", " ", "o", "p", "t", "i", "m", "i", "z", "i",
           "n", "g", " ", "i", "n", "p", "u", "t", " ", "p", "r", "o", "m", "p", "t", "s", " ", "f", "o", "r",
           " ", "l", "a", "n", "g", "u", "a", "g", "e", " ", "m", "o", "d", "e", "l", "s", " ", "t", "o", " ",
           "e", "l", "i", "c", "i", "t", " ", "d", "e", "s", "i", "r", "e", "d", " ", "r", "e", "s", "p", "o",
           "n", "s", "e", "s", ".", " ", "E", "f", "f", "e", "c", "t", "i", "v", "e", " ", "p", "r", "o", "m",
           "p", "t", " ", "e", "n", "g", "i", "n", "e", "e", "r", "i", "n", "g", " ", "i", "m", "p", "r", "o",
           "v", "e", "s", " ", "o", "u", "t", "p", "u", "t", " ", "q", "u", "a", "l", "i", "t", "y", ",", " ",
           "r", "e", "d", "u", "c", "e", "s", " ", "h", "a", "l", "l", "u", "c", "i", "n", "a", "t", "i", "o",
           "n", "s", ",", " ", "a", "n", "d", " ", "h", "e", "l", "p", "s", " ", "c", "o", "n", "t", "r", "o",
           "l", " ", "m", "o", "d", "e", "l", " ", "b", "e", "h", "a", "v", "i", "o", "r", "." >>),
      text |-> None,
      metadata |-> Some([ source |->
                            << "A", "I", " ", "B", "e", "s", "t", " ", "P", "r", "a", "c", "t", "i", "c", "e", "s", " ", "G", "u", "i", "d", "e" >>,
                          date |->
                            << "2", "0", "2", "3", "-", "0", "9", "-", "2", "2" >> ]),
      score |-> Some(870) ]

kb3 ==
    [ content |-> Some(
        << "A", " ", "c", "o", "m", "m", "o", "n", " ", "R", "A", "G", " ", "a", "r", "c", "h", "i", "t", "e",
           "c", "t", "u", "r", "e", " ", "i", "n", "c", "l", "u", "d", "e", "s", ":", " ", "1", ")", " ", "a",
           "n", " ", "e", "m", "b", "e", "d", "d", "i", "n", "g", " ", "m", "o", "d", "e", "l", " ", "t", "o",
           " ", "c", "o", "n", "v", "e", "r", "t", " ", "d", "o", "c", "u", "m", "e", "n", "t", "s", " ", "a",
           "n", "d", " ", "q", "u", "e", "r", "i", "e", "s", " ", "i", "n", "t", "o", " ", "v", "e", "c", "t",
           "o", "r", " ", "r", "e", "p", "r", "e", "s", "e", "n", "t", "a", "t", "i", "o", "n", "s", ",", " ",
           "2", ")", " ", "a", " ", "v", "e", "c", "t", "o", "r", " ", "d", "a", "t", "a", "b", "a", "s", "e",
           " ", "f", "o", "r", " ", "s", "t", "o", "r", "i", "n", "g", " ", "a", "n", "d", " ", "r", "e", "t",
           "r", "i", "e", "v", "i", "n", "g", " ", "d", "o", "c", "u", "m", "e", "n", "t", " ", "e", "m", "b",
           "e", "d", "d", "i", "n", "g", "s", ",", " ", "3", ")", " ", "a", " ", "r", "e", "t", "r", "i", "e",
           "v", "a", "l", " ", "m", "e", "c", "h", "a", "n", "i", "s", "m", " ", "t", "o", " ", "f", "i", "n",
           "d", " ", "r", "e", "l", "e", "v", "a", "n", "t", " ", "d", "o", "c", "u", "m", "e", "n", "t", "s",
           ",", " ", "a", "n", "d", " ", "4", ")", " ", "a", "n", " ", "L", "L", "M", " ", "t", "o", " ", "g",
           "e", "n", "e", "r", "a", "t", "e", " ", "r", "e", "s", "p", "o", "n", "s", "e", "s", " ", "b", "a",
           "s", "e", "d", " ", "o", "n", " ", "r", "e", "t", "r", "i", "e", "v", "e", "d", " ", "c", "o", "n",
           "t", "e", "x", "t", "." >>),
      text |-> None,
      metadata |-> Some([ source |->
                            << "R", "A", "G", " ", "A", "r", "c", "h", "i", "t", "e", "c", "t", "u", "r", "e", " ", "G", "u", "i", "d", "e" >>,
                          date |->
                            << "2", "0", "2", "3", "-", "1", "1", "-", "0", "5" >> ]),
      score |-> Some(850) ]

kb4 ==
    [ content |-> Some(
        << "C", "h", "a", "t", "b", "o", "t", "s", " ", "u", "s", "i", "n", "g", " ", "R", "A", "G", " ", "s",
           "h", "o", "w", " ", "s", "i", "g", "n", "i", "f", "i", "c", "a", "n", "t", " ", "i", "m", "p", "r",
           "o", "v", "e", "m", "e", "n", "t", "s", " ", "i", "n", " ", "f", "a", "c", "t", "u", "a", "l", " ",
           "a", "c", "c", "u", "r", "a", "c", "y", " ", "c", "o", "m", "p", "a", "r", "e", "d", " ", "t", "o",
           " ", "t", "h", "o", "s", "e", " ", "r", "e", "l", "y", "i", "n", "g", " ", "s", "o", "l", "e", "l",
           "y", " ", "o", "n", " ", "p", "r", "e", "-", "t", "r", "a", "i", "n", "e", "d", " ", "k", "n", "o",
           "w", "l", "e", "d", "g", "e", ".", " ", "I", "n", " ", "a", " ", "r", "e", "c", "e", "n", "t", " ",
           "s", "t", "u", "d", "y", ",", " ", "R", "A", "G", "-", "e", "n", "h", "a", "n", "c", "e", "d", " ",
           "c", "h", "a", "t", "b", "o", "t", "s", " ", "r", "e", "d", "u", "c", "e", "d", " ", "h", "a", "l",
           "l", "u", "c", "i", "n", "a", "t", "i", "o", "n", "s", " ", "b", "y", " ", "4", "5", "%", " ", "a",
           "n", "d", " ", "i", "m", "p", "r", "o", "v", "e", "d", " ", "f", "a", "c", "t", "u", "a", "l", " ",
           "a", "c", "c", "u", "r", "a", "c", "y", " ", "b", "y", " ", "3", "7", "%", "." >>),
      text |-> None,
      metadata |-> Some([ source |->
                            << "A", "I", " ", "P", "e", "r", "f", "o", "r", "m", "a", "n", "c", "e", " ", "S", "t", "u", "d", "y" >>,
                          date |->
                            << "2", "0", "2", "4", "-", "0", "1", "-", "1", "8" >> ]),
      score |-> Some(810) ]

kb5 ==
    [ content |-> Some(
        << "W", "h", "e", "n", " ", "i", "m", "p", "l", "e", "m", "e", "n", "t", "i", "n", "g", " ", "R", "A",
           "G", ",", " ", "i", "t", "'", "s", " ", "i", "m", "p", "o", "r", "t", "a", "n", "t", " ", "t", "o",
           " ", "c", "o", "n", "s", "i", "d", "e", "r", ":", " ", "1", ")", " ", "c", "h", "u", "n", "k", "i",
           "n", "g", " ", "s", "t", "r", "a", "t", "e", "g", "y", " ", "f", "o", "r", " ", "b", "r", "e", "a",
           "k", "i", "n", "g", " ", "d", "o", "c", "u", "m", "e", "n", "t", "s", " ", "i", "n", "t", "o", " ",
           "m", "a", "n", "a", "g", "e", "a", "b", "l", "e", " ", "p", "i", "e", "c", "e", "s", ",", " ", "2",
           ")", " ", "e", "m", "b", "e", "d", "d", "i", "n", "g", " ", "m", "o", "d", "e", "l", " ", "s", "e",
           "l", "e", "c", "t", "i", "o", "n", " ", "f", "o", "r", " ", "v", "e", "c", "t", "o", "r", " ", "r",
           "e", "p", "r", "e", "s", "e", "n", "t", "a", "t", "i", "o", "n", "s", ",", " ", "3", ")", " ", "r",
           "e", "t", "r", "i", "e", "v", "a", "l", " ", "m", "e", "c", "h", "a", "n", "i", "s", "m", " ", "f",
           "o", "r", " ", "f", "i", "n", "d", "i", "n", "g", " ", "r", "e", "l", "e", "v", "a", "n", "t", " ",
           "c", "o", "n", "t", "e", "x", "t", ",", " ", "a", "n", "d", " ", "4", ")", " ", "p", "r", "o", "m",
           "p", "t", " ", "d", "e", "s", "i", "g", "n", " ", "f", "o", "r", " ", "e", "f", "f", "e", "c", "t",
           "i", "v", "e", "l", "y", " ", "u", "s", "i", "n", "g", " ", "t", "h", "e", " ", "r", "e", "t", "r",
           "i", "e", "v", "e", "d", " ", "i", "n", "f", "o", "r", "m", "a", "t", "i", "o", "n", "." >>),
      text |-> None,
      metadata |-> Some([ source |->
                            << "R", "A", "G", " ", "I", "m", "p", "l", "e", "m", "e", "n", "t", "a", "t", "i", "o", "n", " ", "G", "u", "i", "d", "e" >>,
                          date |->
                            << "2", "0", "2", "3", "-", "1", "2", "-", "1", "0" >> ]),
      score |-> Some(780) ]

kb6 ==
    [ content |-> Some(
        << "T", "h", "e", " ", "r", "a", "g", "i", "e", " ", "S", "D", "K", " ", "p", "r", "o", "v", "i", "d",
           "e", "s", " ", "r", "e", "t", "r", "i", "e", "v", "a", "l", " ", "c", "a", "p", "a", "b", "i", "l",
           "i", "t", "i", "e", "s", " ", "w", "i", "t", "h", " ", "a", " ", "s", "i", "m", "p", "l", "e", " ",
           "A", "P", "I", ".", " ", "I", "t", " ", "a", "l", "l", "o", "w", "s", " ", "y", "o", "u", " ", "t",
           "o", " ", "r", "e", "t", "r", "i", "e", "v", "e", " ", "r", "e", "l", "e", "v", "a", "n", "t", " ",
           "c", "o", "n", "t", "e", "x", "t", " ", "f", "r", "o", "m", " ", "y", "o", "u", "r", " ", "k", "n",
           "o", "w", "l", "e", "d", "g", "e", " ", "b", "a", "s", "e", " ", "u", "s", "i", "n", "g", " ", "v",
           "e", "c", "t", "o", "r", " ", "s", "e", "a", "r", "c", "h", " ", "a", "n", "d", " ", "s", "e", "m",
           "a", "n", "t", "i", "c", " ", "m", "a", "t", "c", "h", "i", "n", "g", "." >>),
      text |-> None,
      metadata |-> Some([ source |->
                            << "R", "a", "g", "i", "e", " ", "S", "D", "K", " ", "D", "o", "c", "u", "m", "e", "n", "t", "a", "t", "i", "o", "n" >>,
                          date |->
                            << "2", "0", "2", "3", "-", "1", "1", "-", "3", "0" >> ]),
      score |-> Some(910) ]

kb7 ==
    [ content |-> Some(
        << "T", "o", " ", "i", "m", "p", "l", "e", "m", "e", "n", "t", " ", "e", "f", "f", "e", "c", "t", "i",
           "v", "e", " ", "R", "A", "G", " ", "s", "y", "s", "t", "e", "m", "s", ",", " ", "f", "o", "c", "u",
           "s", " ", "o", "n", " ", "t", "h", "e", " ", "q", "u", "a", "l", "i", "t", "y", " ", "o", "f", " ",
           "y", "o", "u", "r", " ", "r", "e", "t", "r", "i", "e", "v", "a", "l", " ", "m", "e", "c", "h", "a",
           "n", "i", "s", "m", " ", "f", "i", "r", "s", "t", ".", " ", "E", "v", "e", "n", " ", "t", "h", "e",
           " ", "b", "e", "s", "t", " ", "l", "a", "n", "g", "u", "a", "g", "e", " ", "m", "o", "d", "e", "l",
           "s", " ", "w", "i", "l", "l", " ", "g", "e", "n", "e", "r", "a", "t", "e", " ", "i", "n", "c", "o",
           "r", "r", "e", "c", "t", " ", "i", "n", "f", "o", "r", "m", "a", "t", "i", "o", "n", " ", "i", "f",
           " ", "t", "h", "e", " ", "r", "e", "t", "r", "i", "e", "v", "e", "d", " ", "c", "o", "n", "t", "e",
           "x", "t", " ", "i", "s", " ", "p", "o", "o", "r", " ", "o", "r", " ", "i", "r", "r", "e", "l", "e",
           "v", "a", "n", "t", "." >>),
      text |-> None,
      metadata |-> Some([ source |->
                            << "R", "A", "G", " ", "B", "e", "s", "t", " ", "P", "r", "a", "c", "t", "i", "c", "e", "s" >>,
                          date |->
                            << "2", "0", "2", "4", "-", "0", "2", "-", "1", "5" >> ]),
      score |-> Some(830) ]

kb8 ==
    [ content |-> Some(
        << "W", "h", "e", "n", " ", "d", "e", "s", "i", "g", "n", "i", "n", "g", " ", "p", "r", "o", "m", "p",
           "t", "s", " ", "f", "o", "r", " ", "R", "A", "G", " ", "s", "y", "s", "t", "e", "m", "s", ",", " ",
           "i", "n", "c", "l", "u", "d", "e", " ", "c", "l", "e", "a", "r", " ", "i", "n", "s", "t", "r", "u",
           "c", "t", "i", "o", "n", "s", " ", "o", "n", " ", "h", "o", "w", " ", "t", "h", "e", " ", "m", "o",
           "d", "e", "l", " ", "s", "h", "o", "u", "l", "d", " ", "u", "s", "e", " ", "t", "h", "e", " ", "r",
           "e", "t", "r", "i", "e", "v", "e", "d", " ", "i", "n", "f", "o", "r", "m", "a", "t", "i", "o", "n",
           ".", " ", "F", "o", "r", " ", "e", "x", "a", "m", "p", "l", "e", ",", " ", "s", "p", "e", "c", "i",
           "f", "y", " ", "w", "h", "e", "t", "h", "e", "r", " ", "t", "h", "e", " ", "m", "o", "d", "e", "l",
           " ", "s", "h", "o", "u", "l", "d", " ", "p", "r", "i", "o", "r", "i", "t", "i", "z", "e", " ", "r",
           "e", "t", "r", "i", "e", "v", "e", "d", " ", "i", "n", "f", "o", "r", "m", "a", "t", "i", "o", "n",
           " ", "o", "v", "e", "r", " ", "i", "t", "s", " ", "p", "r", "e", "-", "t", "r", "a", "i", "n", "e",
           "d", " ", "k", "n", "o", "w", "l", "e", "d", "g", "e", "." >>),
      text |-> None,
      metadata |-> Some([ source |->
                            << "P", "r", "o", "m", "p", "t", " ", "E", "n", "g", "i", "n", "e", "e", "r", "i", "n", "g", " ", "f", "o", "r", " ", "R", "A", "G" >>,
                          date |->
                            << "2", "0", "2", "3", "-", "1", "2", "-", "0", "5" >> ]),
      score |-> Some(890) ]

weather1 ==
    [ content |-> Some(
        << "T", "h", "e", " ", "w", "e", "a", "t", "h", "e", "r", " ", "s", "y", "s", "t", "e", "m", " ", "i",
           "n", "t", "e", "g", "r", "a", "t", "i", "o", "n", " ", "a", "l", "l", "o", "w", "s", " ", "c", "h",
           "a", "t", "b", "o", "t", "s", " ", "t", "o", " ", "r", "e", "t", "r", "i", "e", "v", "e", " ", "c",
           "u", "r", "r", "e", "n", "t", " ", "w", "e", "a", "t", "h", "e", "r", " ", "i", "n", "f", "o", "r",
           "m", "a", "t", "i", "o", "n", " ", "f", "o", "r", " ", "a", " ", "s", "p", "e", "c", "i", "f", "i",
           "c", " ", "l", "o", "c", "a", "t", "i", "o", "n", ".", " ", "T", "h", "i", "s", " ", "p", "r", "o",
           "v", "i", "d", "e", "s", " ", "r", "e", "a", "l", "-", "t", "i", "m", "e", ",", " ", "a", "c", "c",
           "u", "r", "a", "t", "e", " ", "w", "e", "a", "t", "h", "e", "r", " ", "d", "a", "t", "a", " ", "t",
           "o", " ", "u", "s", "e", "r", "s", "." >>),
      text |-> None,
      metadata |-> Some([ source |->
                            << "W", "e", "a", "t", "h", "e", "r", " ", "A", "P", "I", " ", "I", "n", "t", "e", "g", "r", "a", "t", "i", "o", "n", " ", "G", "u", "i", "d", "e" >>,
                          date |->
                            << "2", "0", "2", "4", "-", "0", "1", "-", "1", "0" >> ]),
      score |-> Some(950) ]

weather2 ==
    [ content |-> Some(
        << "W", "e", "a", "t", "h", "e", "r", " ", "d", "a", "t", "a", " ", "c", "a", "n", " ", "b", "e", " ",
           "a", "c", "c", "e", "s", "s", "e", "d", " ", "t", "h", "r", "o", "u", "g", "h", " ", "v", "a", "r",
           "i", "o", "u", "s", " ", "A", "P", "I", "s", " ", "l", "i", "k", "e", " ", "O", "p", "e", "n", "W",
           "e", "a", "t", "h", "e", "r", "M", "a", "p", ",", " ", "W", "e", "a", "t", "h", "e", "r", "A", "P",
           "I", ",", " ", "o", "r", " ", "g", "o", "v", "e", "r", "n", "m", "e", "n", "t", " ", "m", "e", "t",
           "e", "o", "r", "o", "l", "o", "g", "i", "c", "a", "l", " ", "s", "e", "r", "v", "i", "c", "e", "s",
           ".", " ", "M", "o", "s", "t", " ", "p", "r", "o", "v", "i", "d", "e", " ", "c", "u", "r", "r", "e",
           "n", "t", " ", "c", "o", "n", "d", "i", "t", "i", "o", "n", "s", ",", " ", "f", "o", "r", "e", "c",
           "a", "s", "t", "s", ",", " ", "a", "n", "d", " ", "h", "i", "s", "t", "o", "r", "i", "c", "a", "l",
           " ", "d", "a", "t", "a", "." >>),
      text |-> None,
      metadata |-> Some([ source |->
                            << "A", "P", "I", " ", "D", "o", "c", "u", "m", "e", "n", "t", "a", "t", "i", "o", "n" >>,
                          date |->
                            << "2", "0", "2", "3", "-", "1", "1", "-", "2", "0" >> ]),
      score |-> Some(880) ]

document1 ==
    [ content |-> Some(
        << "T", "h", "e", " ", "d", "o", "c", "u", "m", "e", "n", "t", " ", "c", "r", "e", "a", "t", "i", "o",
           "n", " ", "t", "o", "o", "l", " ", "a", "l", "l", "o", "w", "s", " ", "c", "h", "a", "t", "b", "o",
           "t", "s", " ", "t", "o", " ", "g", "e", "n", "e", "r", "a", "t", "e", " ", "a", "n", "d", " ", "m",
           "a", "n", "a", "g", "e", " ", "v", "a", "r", "i", "o", "u", "s", " ", "t", "y", "p", "e", "s", " ",
           "o", "f", " ", "d", "o", "c", "u", "m", "e", "n", "t", "s", " ", "l", "i", "k", "e", " ", "t", "e",
           "x", "t", " ", "f", "i", "l", "e", "s", ",", " ", "c", "o", "d", "e", " ", "s", "n", "i", "p", "p",
           "e", "t", "s", ",", " ", "a", "n", "d", " ", "s", "t", "r", "u", "c", "t", "u", "r", "e", "d", " ",
           "d", "a", "t", "a", ".", " ", "T", "h", "e", "s", "e", " ", "d", "o", "c", "u", "m", "e", "n", "t",
           "s", " ", "c", "a", "n", " ", "b", "e", " ", "e", "d", "i", "t", "e", "d", ",", " ", "s", "a", "v",
           "e", "d", ",", " ", "a", "n", "d", " ", "s", "h", "a", "r", "e", "d", "." >>),
      text |-> None,
      metadata |-> Some([ source |->
                            << "D", "o", "c", "u", "m", "e", "n", "t", " ", "T", "o", "o", "l", " ", "D", "o", "c", "u", "m", "e", "n", "t", "a", "t", "i", "o", "n" >>,
                          date |->
                            << "2", "0", "2", "4", "-", "0", "1", "-", "0", "5" >> ]),
      score |-> Some(940) ]

document2 ==
    [ content |-> Some(
        << "A", "r", "t", "i", "f", "a", "c", "t", "-", "b", "a", "s", "e", "d", " ", "U", "I", " ", "c", "o",
           "m", "p", "o", "n", "e", "n", "t", "s", " ", "e", "n", "h", "a", "n", "c", "e", " ", "c", "h", "a",
           "t", "b", "o", "t", " ", "f", "u", "n", "c", "t", "i", "o", "n", "a", "l", "i", "t", "y", " ", "b",
           "y", " ", "p", "r", "o", "v", "i", "d", "i", "n", "g", " ", "d", "e", "d", "i", "c", "a", "t", "e",
           "d", " ", "i", "n", "t", "e", "r", "f", "a", "c", "e", "s", " ", "f", "o", "r", " ", "d", "i", "f",
           "f", "e", "r", "e", "n", "t", " ", "c", "o", "n", "t", "e", "n", "t", " ", "t", "y", "p", "e", "s",
           ".", " ", "T", "h", "i", "s", " ", "i", "m", "p", "r", "o", "v", "e", "s", " ", "u", "s", "e", "r",
           " ", "e", "x", "p", "e", "r", "i", "e", "n", "c", "e", " ", "b", "y", " ", "d", "i", "s", "p", "l",
           "a", "y", "i", "n", "g", " ", "i", "n", "f", "o", "r", "m", "a", "t", "i", "o", "n", " ", "i", "n",
           " ", "t", "h", "e", " ", "m", "o", "s", "t", " ", "a", "p", "p", "r", "o", "p", "r", "i", "a", "t",
           "e", " ", "f", "o", "r", "m", "a", "t", "." >>),
      text |-> None,
      metadata |-> Some([ source |->
                            << "U", "I", " ", "C", "o", "m", "p", "o", "n", "e", "n", "t", " ", "G", "u", "i", "d", "e" >>,
                          date |->
                            << "2", "0", "2", "3", "-", "1", "2", "-", "1", "8" >> ]),
      score |-> Some(890) ]
mockKb == << kb1, kb2, kb3, kb4, kb5, kb6, kb7, kb8 >>

weatherResults == << weather1, weather2 >>

documentResults == << document1, document2 >>

\* entry.content.toLowerCase() and entry.metadata.source.toLowerCase() of
\* the eight knowledge-base entries
mockKbLowerContent ==
    [ i \in 1..Len(mockKb) |-> toLowerCase(mockKb[i].content[1]) ]

mockKbLowerSource ==
    [ i \in 1..Len(mockKb) |-> toLowerCase(mockKb[i].metadata[1].source) ]

\* mockKbFilter without the clause on the query containing "rag"
mockKbFilter_noCatchAll(i, normalizedQuery) ==
    \/ includes(mockKbLowerContent[i], normalizedQuery)
    \/ includes(mockKbLowerSource[i], << "r", "a", "g" >>)

\* mockKbFilter keeping only the entries whose content contains the query
mockKbFilter_contentOnly(i, normalizedQuery) ==
    includes(mockKbLowerContent[i], normalizedQuery)

\* the predicate of mockKb.filter, for the i-th entry
mockKbFilter(i, normalizedQuery) ==
    \/ includes(mockKbLowerContent[i], normalizedQuery)
    \/ includes(normalizedQuery, << "r", "a", "g" >>)
    \/ includes(mockKbLowerSource[i], << "r", "a", "g" >>)

getMockRetrievalResults(query) ==
    LET normalizedQuery == toLowerCase(query)
        filtered == SelectSeq([ i \in 1..Len(mockKb) |-> i ],
                              LAMBDA i : mockKbFilter(i, normalizedQuery))
    IN  IF includes(normalizedQuery, << "w", "e", "a", "t", "h", "e", "r" >>) THEN weatherResults
        ELSE IF \/ includes(normalizedQuery, << "d", "o", "c", "u", "m", "e", "n", "t" >>)
                \/ includes(normalizedQuery, << "a", "r", "t", "i", "f", "a", "c", "t" >>)
        THEN documentResults
        ELSE [ j \in 1..Min(3, Len(filtered)) |-> mockKb[filtered[j]] ]

\* `result.content || result.text || ''`
contentOf(result) ==
    IF result.content # None /\ result.content # Some(<< >>)
    THEN result.content[1]
    ELSE IF result.text # None /\ result.text # Some(<< >>)
    THEN result.text[1]
    ELSE << >>

mainFormatted(result, includeMetadata) ==
    [ content |-> contentOf(result),
      metadata |-> IF includeMetadata THEN result.metadata ELSE None,
      score |-> Some(scoreOr(result.score, 900)),
      source |-> "main_query" ]

expansionFormatted(result, includeMetadata) ==
    [ content |-> contentOf(result),
      metadata |-> IF includeMetadata THEN result.metadata ELSE None,
      score |-> Some((scoreOr(result.score, 700) * 8) \div 10),
      source |-> "expansion_query" ]

\* result.content.slice(0, 100).trim().toLowerCase()
contentHash(result) == toLowerCase(trim(slice0(result.content, 100)))

RECURSIVE removeDuplicatesFrom(_, _, _)
removeDuplicatesFrom(results, seen, uniq) ==
    IF results = << >> THEN uniq
    ELSE IF contentHash(results[1]) \in seen
    THEN removeDuplicatesFrom(Tail(results), seen, uniq)
    ELSE removeDuplicatesFrom(Tail(results),
                              seen \cup { contentHash(results[1]) },
                              Append(uniq, results[1]))

\* removeDuplicateResults keeping every result
removeDuplicateResults_keepAll(results) == results

removeDuplicateResults(results) == removeDuplicatesFrom(results, {}, << >>)

\* the catch block of retrieveContext
fallbackResults(query, includeMetadata) ==
    LET mock == getMockRetrievalResults(query) IN
    [ raised |-> FALSE,
      value |-> [ i \in 1..Len(mock) |->
                    [ content |-> mock[i].content[1],
                      metadata |-> IF includeMetadata THEN mock[i].metadata
                                   ELSE None,
                      score |-> mock[i].score ] ] ]

\* safeRetrieve swallowing a failed call without substituting fallback data
safeRetrieve_noFallback(clientKind, q, response) ==
    IF clientKind \in { "sdk_retrieve", "sdk_search" }
    THEN IF response.kind = "throw"
         THEN [ isList |-> TRUE, items |-> << >> ]
         ELSE [ isList |-> response.isList, items |-> response.items ]
    ELSE [ isList |-> TRUE, items |-> getMockRetrievalResults(q) ]

\* the body of safeRetrieve for one query, given what the client call did
safeRetrieve(clientKind, q, response) ==
    IF clientKind \in { "sdk_retrieve", "sdk_search" }
    THEN IF response.kind = "throw"
         THEN [ isList |-> TRUE, items |-> getMockRetrievalResults(q) ]
         ELSE [ isList |-> response.isList, items |-> response.items ]
    ELSE [ isList |-> TRUE, items |-> getMockRetrievalResults(q) ]

\* Math.ceil(topK * 0.7) and Math.ceil(topK * 0.5)
mainTopK(topK) == (topK * 7 + 9) \div 10

expansionTopK(topK) == (topK * 5 + 9) \div 10

\* the metadata string of one formatted document
metadataString(result) ==
    IF result.metadata = None THEN << >>
    ELSE LET md == result.metadata[1] IN
         << "\n", "S", "o", "u", "r", "c", "e", ":", " " >>
         \o (IF md.source # << >> THEN md.source ELSE << "U", "n", "k", "n", "o", "w", "n" >>)
         \o (IF md.date # << >>
             THEN << " ", "(" >> \o md.date \o << ")" >>
             ELSE << >>)
         \o (IF result.score # None
             THEN << "\n", "R", "e", "l", "e", "v", "a", "n", "c", "e", ":", " " >>
                  \o numberToString((result.score[1] + 5) \div 10)
                  \o << "%" >>
             ELSE << >>)

\* formatDocument numbering the documents from 0
formatDocument_zeroBased(result, index) ==
    << "[", "D", "o", "c", "u", "m", "e", "n", "t", " " >> \o numberToString(index) \o << "]", ":", "\n" >>
    \o result.content \o metadataString(result)

formatDocument(result, index) ==
    << "[", "D", "o", "c", "u", "m", "e", "n", "t", " " >> \o numberToString(index + 1) \o << "]", ":", "\n" >>
    \o result.content \o metadataString(result)

formatRetrievedContext(retrievalResults) ==
    IF retrievalResults = << >> THEN << >>
    ELSE join([ i \in 1..Len(retrievalResults) |->
                  formatDocument(retrievalResults[i], i - 1) ],
              << "\n", "\n" >>)

\* extractQueryFromMessage
extractQueryFromMessage(message) ==
    IF message.content # None THEN message.content[1]
    ELSE IF message.parts # None
    THEN LET textParts == SelectSeq(message.parts[1],
                                    LAMBDA part : part.type = "text")
         IN  IF Len(textParts) > 0
             THEN join([ i \in 1..Len(textParts) |->
                           IF textParts[i].text = None THEN << >>
                           ELSE textParts[i].text[1] ],
                       << " " >>)
             ELSE << >>
    ELSE << >>

\* messages.filter((msg) => msg.role === 'user')
userMessages(msgs) == SelectSeq(msgs, LAMBDA msg : msg.role = "user")

\* the first element instead of the last
pop_first(array) == array[1]

\* Array.prototype.pop on a non-empty array: its last element
pop(array) == array[Len(array)]

\* resumeEnhance returning a half-built prompt when nothing was retrieved
resumeEnhance_partial(prompt, query, retrievedResults) ==
    LET formattedContext == formatRetrievedContext(retrievedResults) IN
    IF Len(retrievedResults) = 0 THEN prompt \o promptHeader
    ELSE IF formattedContext = << >> THEN prompt
    ELSE createEnhancedRAGPrompt(prompt, query, formattedContext)

\* enhancePromptWithRAG from the return of retrieveContext to its own return
resumeEnhance(prompt, query, retrievedResults) ==
    LET formattedContext == formatRetrievedContext(retrievedResults) IN
    IF Len(retrievedResults) = 0 THEN prompt
    ELSE IF formattedContext = << >> THEN prompt
    ELSE createEnhancedRAGPrompt(prompt, query, formattedContext)

\* ------------------------------------------------------------------------
\* Inputs: prompts, queries, conversation histories, backend documents
\* ------------------------------------------------------------------------

promptEmpty == << >>

promptBrief == << "B", "e", " ", "b", "r", "i", "e", "f", "." >>

SystemPrompts == { promptEmpty, promptBrief }

Models == { defaultModel, reasoningModel }

qEmpty == << >>

qHi == << "h", "i" >>

qHello == << "h", "e", "l", "l", "o" >>

qGreetingFactual == << "H", "e", "y", ",", " ", "w", "h", "a", "t", " ", "i", "s", " ", "R", "A", "G", "?" >>

qFactual == << "w", "h", "a", "t", " ", "i", "s", " ", "R", "A", "G", "?" >>

qFactualInstructional == << "W", "h", "a", "t", " ", "i", "s", " ", "c", "o", "d", "e", " ", "r", "e", "v", "i", "e", "w" >>

qInstructional == << "w", "r", "i", "t", "e", " ", "c", "o", "d", "e" >>

qPlain == << "P", "r", "o", "m", "p", "t", " ", "e", "n", "g", "i", "n", "e", "e", "r", "i", "n", "g" >>

qWeather == << "W", "e", "a", "t", "h", "e", "r", " ", "t", "o", "d", "a", "y" >>

qDocument == << "m", "y", " ", "D", "o", "c", "u", "m", "e", "n", "t" >>

Queries ==
    { qEmpty, qHi, qHello, qGreetingFactual, qFactual, qFactualInstructional,
      qInstructional, qPlain, qWeather, qDocument }

RetrievalQueries == { qFactual, qPlain, qWeather, qDocument }

textMessage(role, text) ==
    [ role |-> role, content |-> Some(text), parts |-> None ]

partsMessage(role, parts) ==
    [ role |-> role, content |-> None, parts |-> Some(parts) ]

textPart(text) == [ type |-> "text", text |-> Some(text) ]

filePart == [ type |-> "file", text |-> None ]

Histories ==
    { << >>,
      << textMessage("assistant", qFactual) >>,
      << textMessage("user", qHello) >>,
      << textMessage("user", qFactual), textMessage("assistant", qHello),
         textMessage("user", qHi) >>,
      << textMessage("user", qHi), textMessage("user", qFactual),
         textMessage("assistant", qHello) >>,
      << textMessage("user", qFactual) >>,
      << partsMessage("user", << textPart(<< "w", "h", "a", "t", " ", "i", "s" >>), filePart,
                                 textPart(<< "R", "A", "G", "?" >>) >>) >>,
      << [ role |-> "user", content |-> Some(<< >>),
           parts |-> Some(<< textPart(qFactual) >>) ] >>,
      << textMessage("user", qFactual),
         partsMessage("user", << filePart >>) >>,
      << textMessage("system", qHello), textMessage("user", qInstructional) >>,
      << textMessage("user", qPlain) >> }

\* a 100-character block without leading or trailing white space
chunk100 ==
<< "C", "h", "u", "n", "k", "-", "R", "A", "G", ".", "C", "h", "u", "n", "k", "-", "R", "A", "G", ".",
   "C", "h", "u", "n", "k", "-", "R", "A", "G", ".", "C", "h", "u", "n", "k", "-", "R", "A", "G", ".",
   "C", "h", "u", "n", "k", "-", "R", "A", "G", ".", "C", "h", "u", "n", "k", "-", "R", "A", "G", ".",
   "C", "h", "u", "n", "k", "-", "R", "A", "G", ".", "C", "h", "u", "n", "k", "-", "R", "A", "G", ".",
   "C", "h", "u", "n", "k", "-", "R", "A", "G", ".", "C", "h", "u", "n", "k", "-", "R", "A", "G", "." >>

docA ==
    [ content |-> Some(<< "R", "A", "G", " ", "f", "a", "c", "t", "s" >>), text |-> None,
      metadata |-> Some([ source |-> << "w", "i", "k", "i" >>, date |-> << "2", "0", "2", "4" >> ]),
      score |-> Some(500) ]

docB ==
    [ content |-> None, text |-> Some(<< "Q", ":", " ", "W", "h", "a", "t", " ", "i", "s", " ", "R", "A", "G", "?", " ", "A", ":", " ", "r", "e", "t", "r", "i", "e", "v", "a", "l", "." >>),
      metadata |-> None, score |-> None ]

docA2 ==
    [ content |-> Some(<< " ", " ", "r", "a", "g", " ", "F", "A", "C", "T", "S", "\n" >>), text |-> None,
      metadata |-> Some([ source |-> << >>, date |-> << >> ]),
      score |-> Some(950) ]

docP1 ==
    [ content |-> Some(chunk100 \o << "Q" >>), text |-> None,
      metadata |-> None, score |-> Some(0) ]

docP2 ==
    [ content |-> Some(<< " " >> \o chunk100), text |-> None,
      metadata |-> None, score |-> Some(950) ]

docP3 ==
    [ content |-> Some(chunk100 \o << "R" >>), text |-> None,
      metadata |-> None, score |-> Some(500) ]

\* what one call of client.retrieve / client.search can do: throw, return
\* something that is not a list, or return a list of documents
responseThrow == [ kind |-> "throw", isList |-> FALSE, items |-> << >> ]

responseNotList == [ kind |-> "value", isList |-> FALSE, items |-> << >> ]

responseList(items) == [ kind |-> "value", isList |-> TRUE, items |-> items ]

BackendResponses ==
    { responseThrow, responseNotList, responseList(<< >>),
      responseList(<< docA, docB >>),
      responseList(<< docA2, docP2, docP1, docP3 >>) }

\* result records handed to a direct rerankResults call
RerankItems ==
    { [ content |-> << "a", "b", "o", "u", "t", " ", "R", "A", "G" >>, score |-> None ],
      [ content |-> << "R", "A", "G", "!" >>, score |-> Some(0) ],
      [ content |-> << "A", "b", "o", "u", "t", " ", "r", "a", "g" >>, score |-> Some(300) ],
      [ content |-> << "o", "t", "h", "e", "r" >>, score |-> Some(900) ],
      [ content |-> << "o", "t", "h", "e", "r" >>, score |-> Some(0) ],
      [ content |-> << >>, score |-> None ] }

RerankInputs ==
    UNION { [ 1..n -> RerankItems ] : n \in 0..MaxRerankLen }

RerankQueries == { << "R", "a", "g" >> }

\* result records handed to a direct formatRetrievedContext call
FormatItems ==
    { [ content |-> << >>, metadata |-> None, score |-> None ],
      [ content |-> << "R", "A", "G", " ", "f", "a", "c", "t", "s" >>,
        metadata |-> Some([ source |-> << "w", "i", "k", "i" >>, date |-> << "2", "0", "2", "4" >> ]),
        score |-> Some(920) ],
      [ content |-> << "x" >>,
        metadata |-> Some([ source |-> << >>, date |-> << >> ]),
        score |-> None ] }

FormatInputs ==
    UNION { [ 1..n -> FormatItems ] : n \in 0..MaxFormatLen }

ClientKinds == { "mock", "sdk_retrieve", "sdk_search", "sdk_none" }

\* ------------------------------------------------------------------------
\* State machine
\* ------------------------------------------------------------------------

NoConfig ==
    [ enabled |-> FALSE, topK |-> 0, includeMetadata |-> FALSE,
      formatOptions |-> [ maxCharsPerDoc |-> 0, hideSource |-> FALSE ] ]

NoOptions == [ query |-> << >>, topK |-> 0, includeMetadata |-> FALSE ]

NoCall ==
    [ st |-> "none", settled |-> 0, query |-> << >>, topK |-> 0,
      response |-> responseThrow,
      result |-> [ isList |-> FALSE, items |-> << >> ] ]

Init ==
    /\ pc = "idle"
    /\ op = "none"
    /\ ragieClient = "unset"
    /\ systemPromptText = << >>
    /\ messages = << >>
    /\ selectedChatModel = defaultModel
    /\ queryText = << >>
    /\ ragConfig = NoConfig
    /\ enhanced = << >>
    /\ options = NoOptions
    /\ client = "none"
    /\ expansionQuery = << >>
    /\ mainCall = NoCall
    /\ expansionCall = NoCall
    /\ allResults = << >>
    /\ uniqueResults = << >>
    /\ retrieved = << >>
    /\ rerankQuery = << >>
    /\ rerankInput = << >>
    /\ rerankOutput = << >>
    /\ rerankArgAfter = << >>
    /\ raised = FALSE
    /\ formatInput = << >>
    /\ formatOutput = << >>
    /\ otherClient = "none"

retrievalVars ==
    << client, expansionQuery, mainCall, expansionCall, allResults,
       uniqueResults, retrieved >>

rerankVars == << rerankQuery, rerankInput, rerankOutput, rerankArgAfter >>

formatVars == << formatInput, formatOutput >>

\* enhancePromptWithRAG up to its first await: find the last user message,
\* extract its text, classify, and either return the prompt unchanged or
\* call retrieveContext
EnhanceCall(prompt, msgs, model) ==
    /\ pc = "idle"
    /\ op' = "enhance"
    /\ systemPromptText' = prompt
    /\ messages' = msgs
    /\ selectedChatModel' = model
    /\ LET users == userMessages(msgs)
           text == IF users = << >> THEN << >>
                   ELSE extractQueryFromMessage(pop(users))
           config == getRagConfig(text, model)
       IN  IF users = << >>
           THEN /\ enhanced' = prompt
                /\ pc' = "done"
                /\ UNCHANGED << queryText, ragConfig, options >>
           ELSE IF text = << >>
           THEN /\ queryText' = text
                /\ enhanced' = prompt
                /\ pc' = "done"
                /\ UNCHANGED << ragConfig, options >>
           ELSE IF ~config.enabled
           THEN /\ queryText' = text
                /\ ragConfig' = config
                /\ enhanced' = prompt
                /\ pc' = "done"
                /\ UNCHANGED options
           ELSE /\ queryText' = text
                /\ ragConfig' = config
                /\ options' = [ query |-> text, topK |-> config.topK,
                                includeMetadata |-> config.includeMetadata ]
                /\ pc' = "rc_init"
                /\ UNCHANGED enhanced
    /\ UNCHANGED << ragieClient, retrievalVars, rerankVars, formatVars, otherClient, raised >>

\* a direct call of retrieveContext
RetrieveCall(query, topK, includeMetadata) ==
    /\ pc = "idle"
    /\ op' = "retrieve"
    /\ options' = [ query |-> query, topK |-> topK,
                    includeMetadata |-> includeMetadata ]
    /\ pc' = "rc_init"
    /\ UNCHANGED << ragieClient, systemPromptText, messages, selectedChatModel,
                    queryText, ragConfig, enhanced, retrievalVars, rerankVars, formatVars, otherClient,
                    raised >>

\* initRagieClient storing the handle it obtained in the module-level variable
InitRagieClient_caching(kind) ==
    /\ pc = "rc_init"
    /\ client' = IF ragieClient # "unset" THEN ragieClient ELSE kind
    /\ ragieClient' = client'
    /\ pc' = "rc_issue"
    /\ UNCHANGED << op, systemPromptText, messages,
                    selectedChatModel, queryText, ragConfig, enhanced, options,
                    expansionQuery, mainCall, expansionCall, allResults,
                    uniqueResults, retrieved, rerankVars, formatVars,
                    otherClient, raised >>

\* initRagieClient: the cached handle if there is one; otherwise the import
\* of the SDK fails (mock client) or yields a client object whose shape
\* (retrieve, search, or neither) is the SDK version's
InitRagieClient(kind) ==
    /\ pc = "rc_init"
    /\ client' = IF ragieClient # "unset" THEN ragieClient ELSE kind
    /\ pc' = "rc_issue"
    /\ UNCHANGED << op, ragieClient, systemPromptText, messages,
                    selectedChatModel, queryText, ragConfig, enhanced, options,
                    expansionQuery, mainCall, expansionCall, allResults,
                    uniqueResults, retrieved, rerankVars, formatVars, otherClient, raised >>

\* generateExpansionQuery, then both safeRetrieve calls are started
IssueQueries ==
    /\ pc = "rc_issue"
    /\ expansionQuery' = generateExpansionQuery(options.query)
    /\ mainCall' = [ NoCall EXCEPT !.st = "pending",
                                   !.query = options.query,
                                   !.topK = mainTopK(options.topK) ]
    /\ expansionCall' = [ NoCall EXCEPT !.st = "pending",
                                        !.query = expansionQuery',
                                        !.topK = expansionTopK(options.topK) ]
    /\ pc' = "rc_wait"
    /\ UNCHANGED << op, ragieClient, systemPromptText, messages,
                    selectedChatModel, queryText, ragConfig, enhanced, options,
                    client, allResults, uniqueResults, retrieved, rerankVars, formatVars, otherClient,
                    raised >>

\* the responses a call can get: the backend's for an SDK client with a
\* retrieve or search method; none is consulted otherwise
ResponsesFor(kind) ==
    IF kind \in { "sdk_retrieve", "sdk_search" } THEN BackendResponses
    ELSE { responseThrow }

\* safeRetrieve(query, ...) settles
MainQueryReturns(response) ==
    /\ pc = "rc_wait"
    /\ mainCall.st = "pending"
    /\ response \in ResponsesFor(client)
    /\ mainCall' = [ mainCall EXCEPT
                       !.st = "done",
                       !.settled = expansionCall.settled + 1,
                       !.response = response,
                       !.result = safeRetrieve(client, mainCall.query,
                                               response) ]
    /\ UNCHANGED << pc, op, ragieClient, systemPromptText, messages,
                    selectedChatModel, queryText, ragConfig, enhanced, options,
                    client, expansionQuery, expansionCall, allResults,
                    uniqueResults, retrieved, rerankVars, formatVars, otherClient, raised >>

\* safeRetrieve(expansionQuery, ...) settles
ExpansionQueryReturns(response) ==
    /\ pc = "rc_wait"
    /\ expansionCall.st = "pending"
    /\ response \in ResponsesFor(client)
    /\ expansionCall' = [ expansionCall EXCEPT
                            !.st = "done",
                            !.settled = mainCall.settled + 1,
                            !.response = response,
                            !.result = safeRetrieve(client,
                                                    expansionCall.query,
                                                    response) ]
    /\ UNCHANGED << pc, op, ragieClient, systemPromptText, messages,
                    selectedChatModel, queryText, ragConfig, enhanced, options,
                    client, expansionQuery, mainCall, allResults,
                    uniqueResults, retrieved, rerankVars, formatVars, otherClient, raised >>

\* where retrieveContext's caller resumes
afterRetrieve == IF op = "enhance" THEN "enh_resume" ELSE "done"

\* MergeResults not waiting for the expansion query to settle
MergeResults_early ==
    /\ pc = "rc_wait"
    /\ mainCall.st = "done"
    /\ IF mainCall.result.isList /\ expansionCall.result.isList
       THEN LET mainItems == mainCall.result.items
                expansionItems == expansionCall.result.items
                merged ==
                    [ i \in 1..Len(mainItems) |->
                        mainFormatted(mainItems[i], options.includeMetadata) ]
                    \o
                    [ i \in 1..Len(expansionItems) |->
                        expansionFormatted(expansionItems[i],
                                           options.includeMetadata) ]
            IN  /\ allResults' = merged
                /\ uniqueResults' = removeDuplicateResults(merged)
                /\ pc' = "rc_rerank"
                /\ UNCHANGED << retrieved, raised >>
       ELSE LET fallback == fallbackResults(options.query,
                                            options.includeMetadata)
            IN  /\ retrieved' = fallback.value
                /\ raised' = fallback.raised
                /\ pc' = IF fallback.raised THEN "done" ELSE afterRetrieve
                /\ UNCHANGED << allResults, uniqueResults >>
    /\ UNCHANGED << op, ragieClient, systemPromptText, messages,
                    selectedChatModel, queryText, ragConfig, enhanced, options,
                    client, expansionQuery, mainCall, expansionCall,
                    rerankVars, formatVars, otherClient >>

\* after Promise.all: transform, merge and deduplicate; a value that is not
\* a list makes `.map` throw, which the catch block turns into fallback data
MergeResults ==
    /\ pc = "rc_wait"
    /\ mainCall.st = "done"
    /\ expansionCall.st = "done"
    /\ IF mainCall.result.isList /\ expansionCall.result.isList
       THEN LET mainItems == mainCall.result.items
                expansionItems == expansionCall.result.items
                merged ==
                    [ i \in 1..Len(mainItems) |->
                        mainFormatted(mainItems[i], options.includeMetadata) ]
                    \o
                    [ i \in 1..Len(expansionItems) |->
                        expansionFormatted(expansionItems[i],
                                           options.includeMetadata) ]
            IN  /\ allResults' = merged
                /\ uniqueResults' = removeDuplicateResults(merged)
                /\ pc' = "rc_rerank"
                /\ UNCHANGED << retrieved, raised >>
       ELSE LET fallback == fallbackResults(options.query,
                                            options.includeMetadata)
            IN  /\ retrieved' = fallback.value
                /\ raised' = fallback.raised
                /\ pc' = IF fallback.raised THEN "done" ELSE afterRetrieve
                /\ UNCHANGED << allResults, uniqueResults >>
    /\ UNCHANGED << op, ragieClient, systemPromptText, messages,
                    selectedChatModel, queryText, ragConfig, enhanced, options,
                    client, expansionQuery, mainCall, expansionCall,
                    rerankVars, formatVars, otherClient >>

\* RerankAndReturn truncating the deduplicated list before ranking it
RerankAndReturn_truncateFirst ==
    /\ pc = "rc_rerank"
    /\ retrieved' = rerankResults(options.query,
                                  slice0(uniqueResults, options.topK))
    /\ uniqueResults' = rerankArgument(options.query, uniqueResults)
    /\ pc' = afterRetrieve
    /\ UNCHANGED << op, ragieClient, systemPromptText, messages,
                    selectedChatModel, queryText, ragConfig, enhanced, options,
                    client, expansionQuery, mainCall, expansionCall,
                    allResults, rerankVars, formatVars, otherClient, raised >>

\* rerank, truncate to topK and return
RerankAndReturn ==
    /\ pc = "rc_rerank"
    /\ retrieved' = slice0(rerankResults(options.query, uniqueResults),
                           options.topK)
    /\ uniqueResults' = rerankArgument(options.query, uniqueResults)
    /\ pc' = afterRetrieve
    /\ UNCHANGED << op, ragieClient, systemPromptText, messages,
                    selectedChatModel, queryText, ragConfig, enhanced, options,
                    client, expansionQuery, mainCall, expansionCall,
                    allResults, rerankVars, formatVars, otherClient, raised >>

\* enhancePromptWithRAG after retrieveContext has returned
EnhanceResume ==
    /\ pc = "enh_resume"
    /\ enhanced' = resumeEnhance(systemPromptText, queryText, retrieved)
    /\ pc' = "done"
    /\ UNCHANGED << op, ragieClient, systemPromptText, messages,
                    selectedChatModel, queryText, ragConfig, options,
                    retrievalVars, rerankVars, formatVars, otherClient, raised >>

\* a direct call of getRagConfig
GetRagConfigCall(query, model) ==
    /\ pc = "idle"
    /\ op' = "config"
    /\ queryText' = query
    /\ selectedChatModel' = model
    /\ ragConfig' = getRagConfig(query, model)
    /\ pc' = "done"
    /\ UNCHANGED << ragieClient, systemPromptText, messages, enhanced, options,
                    retrievalVars, rerankVars, formatVars, otherClient, raised >>

\* a direct call of rerankResults
RerankCall(query, results) ==
    /\ pc = "idle"
    /\ op' = "rerank"
    /\ rerankQuery' = query
    /\ rerankInput' = results
    /\ rerankOutput' = rerankResults(query, results)
    /\ rerankArgAfter' = rerankArgument(query, results)
    /\ pc' = "done"
    /\ UNCHANGED << ragieClient, systemPromptText, messages, selectedChatModel,
                    queryText, ragConfig, enhanced, options, retrievalVars,
                    raised, formatVars, otherClient >>

\* a direct call of formatRetrievedContext
FormatCall(results) ==
    /\ pc = "idle"
    /\ op' = "format"
    /\ formatInput' = results
    /\ formatOutput' = formatRetrievedContext(results)
    /\ pc' = "done"
    /\ UNCHANGED << ragieClient, systemPromptText, messages, selectedChatModel,
                    queryText, ragConfig, enhanced, options, retrievalVars,
                    rerankVars, raised, otherClient >>

\* the invocation has returned; its locals are gone, the module-level
\* handle stays
Finish ==
    /\ pc = "done"
    /\ pc' = "idle"
    /\ op' = "none"
    /\ systemPromptText' = << >>
    /\ messages' = << >>
    /\ selectedChatModel' = defaultModel
    /\ queryText' = << >>
    /\ ragConfig' = NoConfig
    /\ enhanced' = << >>
    /\ options' = NoOptions
    /\ client' = "none"
    /\ expansionQuery' = << >>
    /\ mainCall' = NoCall
    /\ expansionCall' = NoCall
    /\ allResults' = << >>
    /\ uniqueResults' = << >>
    /\ retrieved' = << >>
    /\ rerankQuery' = << >>
    /\ rerankInput' = << >>
    /\ rerankOutput' = << >>
    /\ rerankArgAfter' = << >>
    /\ raised' = FALSE
    /\ formatInput' = << >>
    /\ formatOutput' = << >>
    /\ UNCHANGED << ragieClient, otherClient >>

Next ==
    \/ \E prompt \in SystemPrompts, msgs \in Histories, model \in Models :
          EnhanceCall(prompt, msgs, model)
    \/ \E query \in RetrievalQueries, topK \in 1..MaxTopK,
          includeMetadata \in BOOLEAN :
          RetrieveCall(query, topK, includeMetadata)
    \/ \E kind \in ClientKinds : InitRagieClient(kind)
    \/ IssueQueries
    \/ \E response \in BackendResponses : MainQueryReturns(response)
    \/ \E response \in BackendResponses : ExpansionQueryReturns(response)
    \/ MergeResults
    \/ RerankAndReturn
    \/ EnhanceResume
    \/ \E query \in Queries, model \in Models : GetRagConfigCall(query, model)
    \/ \E query \in RerankQueries, results \in RerankInputs :
          RerankCall(query, results)
    \/ \E results \in FormatInputs : FormatCall(results)
    \/ Finish

Spec == Init /\ [][Next]_vars

\* ------------------------------------------------------------------------
\* Interleaved invocations
\* ------------------------------------------------------------------------

\* Everything an invocation works on is local to it except the
\* module-level handle, which initRagieClient reads.  A second invocation
\* running concurrently is therefore represented by its initRagieClient
\* step, which may fall between any two steps of the first one, and by its
\* return.

invocationVars ==
    << pc, op, systemPromptText, messages, selectedChatModel, queryText,
       ragConfig, enhanced, options, retrievalVars, rerankVars, raised,
       formatVars >>

\* initRagieClient of the concurrent invocation
ConcurrentInitRagieClient(kind) ==
    /\ otherClient = "none"
    /\ otherClient' = IF ragieClient # "unset" THEN ragieClient ELSE kind
    /\ UNCHANGED << ragieClient, invocationVars >>

\* the concurrent invocation returns and drops its handle
ConcurrentReturn ==
    /\ otherClient # "none"
    /\ otherClient' = "none"
    /\ UNCHANGED << ragieClient, invocationVars >>

ConcurrentHistories ==
    { << textMessage("user", qHello) >>,
      << textMessage("user", qHi), textMessage("user", qPlain) >> }

NextConcurrent ==
    \/ \E msgs \in ConcurrentHistories :
          EnhanceCall(promptBrief, msgs, defaultModel)
    \/ RetrieveCall(qFactual, MaxTopK, TRUE)
    \/ \E kind \in ClientKinds : InitRagieClient(kind)
    \/ IssueQueries
    \/ \E response \in BackendResponses : MainQueryReturns(response)
    \/ \E response \in BackendResponses : ExpansionQueryReturns(response)
    \/ MergeResults
    \/ RerankAndReturn
    \/ EnhanceResume
    \/ Finish
    \/ \E kind \in ClientKinds : ConcurrentInitRagieClient(kind)
    \/ ConcurrentReturn

SpecConcurrent == Init /\ [][NextConcurrent]_vars

\* ------------------------------------------------------------------------
\* Properties
\* ------------------------------------------------------------------------

\* ragConfig holds getRagConfig(queryText, selectedChatModel)
ConfigComputed ==
    \/ op = "config" /\ pc = "done"
    \/ op = "enhance" /\ ragConfig # NoConfig

\* retrieveContext has run and returned `retrieved`
RetrieveReturned ==
    /\ op \in { "enhance", "retrieve" }
    /\ client # "none"
    /\ pc \in { "enh_resume", "done" }

\* retrieveContext returned from its try block (merge, dedup, rerank, slice)
ReturnedFromTry ==
    /\ RetrieveReturned
    /\ mainCall.result.isList
    /\ expansionCall.result.isList

\* C5: getRagConfig applies the first matching rule only, in the order
\* greeting (retrieval disabled), question phrase (topK 5), creation word
\* (topK 4, maxCharsPerDoc 2000), reasoning model (metadata on, source
\* shown), else the default configuration; a greeting opener disables
\* retrieval whatever else the query matches.
C5_FirstMatchingRule ==
    ConfigComputed =>
        LET fo == ragConfig.formatOptions IN
        /\ IF isConversational(queryText)
           THEN /\ ~ragConfig.enabled
                /\ ragConfig.topK = 3
                /\ fo.maxCharsPerDoc = 1500
           ELSE IF isFactual(queryText)
           THEN /\ ragConfig.enabled
                /\ ragConfig.topK = 5
                /\ fo.maxCharsPerDoc = 1500
           ELSE IF isInstructional(queryText)
           THEN /\ ragConfig.enabled
                /\ ragConfig.topK = 4
                /\ fo.maxCharsPerDoc = 2000
           ELSE IF selectedChatModel = reasoningModel
           THEN /\ ragConfig.enabled
                /\ ragConfig.includeMetadata
                /\ ~fo.hideSource
                /\ ragConfig.topK = 3
           ELSE /\ ragConfig.enabled
                /\ ragConfig.topK = 3
                /\ ragConfig.includeMetadata
                /\ fo.maxCharsPerDoc = 1500
        /\ queryText \in { qHi, qHello, qGreetingFactual } => ~ragConfig.enabled
        /\ queryText = qFactualInstructional => ragConfig.topK = 5

\* a greeting that also contains a question phrase has been classified
C5_Witness ==
    /\ op = "config"
    /\ pc = "done"
    /\ queryText = qGreetingFactual
    /\ isFactual(queryText)
    /\ ~ragConfig.enabled
    /\ ragConfig.topK = 3

\* C6 as stated: every query matching a factual pattern gets topK 5 and
\* every query matching an instructional pattern gets topK 4 and
\* maxCharsPerDoc 2000.
C6_Original ==
    ConfigComputed =>
        /\ isFactual(queryText) => ragConfig.topK = 5
        /\ isInstructional(queryText) =>
              /\ ragConfig.topK = 4
              /\ ragConfig.formatOptions.maxCharsPerDoc = 2000

\* C6 amended: a factual query that does not start with a greeting opener
\* gets topK 5; an instructional query that neither starts with a greeting
\* opener nor matches a factual pattern gets topK 4 and maxCharsPerDoc 2000.
C6_Amended ==
    ConfigComputed =>
        /\ isFactual(queryText) /\ ~isConversational(queryText) =>
              ragConfig.topK = 5
        /\ /\ isInstructional(queryText)
           /\ ~isFactual(queryText)
           /\ ~isConversational(queryText)
           => /\ ragConfig.topK = 4
              /\ ragConfig.formatOptions.maxCharsPerDoc = 2000

\* a query matching both a factual and an instructional pattern, and a
\* purely instructional one, have been classified
C6_Witness ==
    /\ op = "config"
    /\ pc = "done"
    /\ \/ /\ queryText = qFactualInstructional
          /\ isFactual(queryText)
          /\ isInstructional(queryText)
          /\ ragConfig.topK = 5
       \/ /\ queryText = qInstructional
          /\ isInstructional(queryText)
          /\ ~isFactual(queryText)
          /\ ragConfig.topK = 4

\* the sort key of rerankResults: contains-status, then score
rerankKey(query, r) ==
    << includes(toLowerCase(r.content), toLowerCase(query)),
       IF r.score = None THEN 0 ELSE r.score[1] >>

countOf(x, s) == Cardinality({ i \in 1..Len(s) : s[i] = x })

\* C9: rerankResults returns a permutation of its input with every
\* query-containing result before every other one, descending score (a
\* missing score counting as 0) within each group, input order kept among
\* results that tie on both, and the input list left unmodified.
C9_RerankOrder ==
    op = "rerank" /\ pc = "done" =>
        LET out == rerankOutput
            in == rerankInput
            key(r) == rerankKey(rerankQuery, r)
        IN  /\ Len(out) = Len(in)
            /\ \A x \in Range(in) \cup Range(out) :
                  countOf(x, out) = countOf(x, in)
            /\ \A i, j \in 1..Len(out) :
                  i < j =>
                     /\ ~(~key(out[i])[1] /\ key(out[j])[1])
                     /\ key(out[i])[1] = key(out[j])[1] =>
                           key(out[i])[2] >= key(out[j])[2]
            /\ \A r \in Range(in) :
                  SelectSeq(out, LAMBDA x : key(x) = key(r))
                    = SelectSeq(in, LAMBDA x : key(x) = key(r))
            /\ rerankArgAfter = in

\* a list whose containing result comes last and whose tied results differ
\* has been reranked
C9_Witness ==
    /\ op = "rerank"
    /\ pc = "done"
    /\ Len(rerankInput) = 3
    /\ rerankOutput # rerankInput
    /\ ~rerankKey(rerankQuery, rerankInput[1])[1]
    /\ rerankKey(rerankQuery, rerankInput[3])[1]
    /\ rerankKey(rerankQuery, rerankInput[1])
         = rerankKey(rerankQuery, rerankInput[2])
    /\ rerankInput[1] # rerankInput[2]

\* the text of the last message with role "user": its string content if
\* it has one, else its text-typed parts joined by single spaces
lastUserIndex(msgs) ==
    CHOOSE i \in 1..Len(msgs) :
        /\ msgs[i].role = "user"
        /\ \A j \in (i + 1)..Len(msgs) : msgs[j].role # "user"

RECURSIVE partsText(_)
partsText(parts) ==
    IF parts = << >> THEN << >>
    ELSE LET rest == partsText(Tail(parts))
             restHasText == \E k \in 2..Len(parts) : parts[k].type = "text"
             here == IF parts[1].text = None THEN << >> ELSE parts[1].text[1]
         IN  IF parts[1].type # "text" THEN rest
             ELSE IF restHasText THEN here \o << " " >> \o rest
             ELSE here

lastUserText(msgs) ==
    LET m == msgs[lastUserIndex(msgs)] IN
    IF m.content # None THEN m.content[1]
    ELSE IF m.parts # None THEN partsText(m.parts[1])
    ELSE << >>

hasUser(msgs) == \E i \in 1..Len(msgs) : msgs[i].role = "user"

\* C10: the query of enhancePromptWithRAG is the text of the last user
\* message alone (string content, else text parts joined by spaces); other
\* messages never change the returned prompt, and a history whose last
\* user message is a greeting returns systemPrompt unchanged.
C10_LastUserMessageOnly ==
    op = "enhance" /\ hasUser(messages) =>
        LET text == lastUserText(messages) IN
        /\ queryText = text
        /\ text # << >> /\ ~isConversational(text) => options.query = text
        /\ pc = "done" /\ ~raised =>
              /\ text = << >> \/ isConversational(text) =>
                    enhanced = systemPromptText
              /\ enhanced \in
                    { systemPromptText,
                      createEnhancedRAGPrompt(
                          systemPromptText, text,
                          formatRetrievedContext(retrieved)) }

\* a history with an earlier factual question and a final greeting has
\* returned, and one with an earlier greeting and a final question has been
\* enhanced
C10_Witness ==
    /\ op = "enhance"
    /\ pc = "done"
    /\ Len(messages) = 3
    /\ \/ /\ lastUserText(messages) = qHi
          /\ messages[1] = textMessage("user", qFactual)
          /\ enhanced = systemPromptText
       \/ /\ lastUserText(messages) = qFactual
          /\ messages[1] = textMessage("user", qHi)
          /\ messages[3].role = "assistant"
          /\ enhanced # systemPromptText

\* the backend cannot be reached: the client is the mock client or has no
\* usable method, or both backend calls threw
BackendUnavailable ==
    \/ client \in { "mock", "sdk_none" }
    \/ /\ client \in { "sdk_retrieve", "sdk_search" }
       /\ mainCall.st = "done"
       /\ expansionCall.st = "done"
       /\ mainCall.response.kind = "throw"
       /\ expansionCall.response.kind = "throw"

\* C1: enhancePromptWithRAG returns systemPrompt itself on every
\* short-circuit (no user message, empty text, retrieval disabled, zero
\* results, empty formatted context) and otherwise the full enhanced
\* prompt; it never returns anything else and never raises.
C1_ShortCircuitReturnsPrompt ==
    op = "enhance" /\ pc = "done" =>
        LET noUser == ~hasUser(messages)
            emptyText == hasUser(messages) /\ lastUserText(messages) = << >>
            disabled == ragConfig # NoConfig /\ ~ragConfig.enabled
            zeroResults == client # "none" /\ Len(retrieved) = 0
            emptyContext == /\ client # "none"
                            /\ formatRetrievedContext(retrieved) = << >>
        IN  /\ ~raised
            /\ IF noUser \/ emptyText \/ disabled \/ zeroResults
                  \/ emptyContext
               THEN enhanced = systemPromptText
               ELSE /\ client # "none"
                    /\ enhanced =
                         systemPromptText \o promptHeader
                         \o formatRetrievedContext(retrieved)
                         \o promptSeparator
                         \o generateQuerySpecificInstructions(queryText)
                         \o promptGuidelines

\* the backend returned two empty lists and the prompt came back unchanged
C1_Witness ==
    /\ op = "enhance"
    /\ pc = "done"
    /\ systemPromptText = promptBrief
    /\ client = "sdk_retrieve"
    /\ mainCall.response = responseList(<< >>)
    /\ expansionCall.response = responseList(<< >>)
    /\ retrieved = << >>
    /\ enhanced = systemPromptText

\* C2 as stated: whatever the backend does, the list retrieveContext
\* returns has at most topK entries, the catch block's fallback included.
C2_AtMostTopK ==
    RetrieveReturned => Len(retrieved) <= options.topK

\* C3: when the backend call of one query throws, that query's results are
\* the fallback set chosen for its own text, the other query's results are
\* what the backend returned, and no exception leaves retrieveContext.
C3_FailedQueryFallsBack ==
    /\ ~raised
    /\ client \in { "sdk_retrieve", "sdk_search" } =>
          /\ mainCall.st = "done" =>
                /\ mainCall.query = options.query
                /\ IF mainCall.response.kind = "throw"
                   THEN /\ mainCall.result.isList
                        /\ mainCall.result.items
                             = getMockRetrievalResults(options.query)
                        /\ options.query = qPlain =>
                              mainCall.result.items = << kb1, kb2, kb3 >>
                   ELSE /\ mainCall.result.isList = mainCall.response.isList
                        /\ mainCall.result.items = mainCall.response.items
          /\ expansionCall.st = "done" =>
                /\ expansionCall.query = expansionQuery
                /\ IF expansionCall.response.kind = "throw"
                   THEN /\ expansionCall.result.isList
                        /\ expansionCall.result.items
                             = getMockRetrievalResults(expansionQuery)
                        /\ options.query = qPlain =>
                              expansionCall.result.items = << kb1, kb3, kb5 >>
                   ELSE /\ expansionCall.result.isList
                             = expansionCall.response.isList
                        /\ expansionCall.result.items
                             = expansionCall.response.items
          /\ pc = "rc_rerank" =>
                LET m == mainCall.result.items
                    e == expansionCall.result.items
                IN  /\ Len(allResults) = Len(m) + Len(e)
                    /\ \A i \in 1..Len(m) :
                          /\ allResults[i].content = contentOf(m[i])
                          /\ allResults[i].source = "main_query"
                    /\ \A i \in 1..Len(e) :
                          /\ allResults[Len(m) + i].content = contentOf(e[i])
                          /\ allResults[Len(m) + i].source = "expansion_query"

\* the main call threw, the expansion call returned documents, and the two
\* have been merged
C3_Witness ==
    /\ pc = "rc_rerank"
    /\ client = "sdk_retrieve"
    /\ options.query = qPlain
    /\ mainCall.response.kind = "throw"
    /\ expansionCall.response = responseList(<< docA, docB >>)
    /\ Len(allResults) = 5
    /\ allResults[4].content = contentOf(docA)

\* the duplicate key as C4 words it: the first 100 characters of the
\* lower-cased, trimmed content
trimmedFirst100(result) == slice0(trim(toLowerCase(result.content)), 100)

\* C4 as stated: of two merged results whose lower-cased trimmed contents
\* agree on their first 100 characters, the later one never appears in the
\* output of retrieveContext.
C4_Original ==
    ReturnedFromTry =>
        \A i, j \in 1..Len(allResults) :
            /\ i < j
            /\ trimmedFirst100(allResults[i]) = trimmedFirst100(allResults[j])
            /\ allResults[i] # allResults[j]
            => allResults[j] \notin Range(retrieved)

\* C4 amended: of two merged results whose first 100 characters of content
\* agree once trimmed and lower-cased (slice, then trim, then lower-case),
\* the later one never appears in the output of retrieveContext's
\* merge-and-deduplicate path; the output holds at most one result per key,
\* the first encountered.
C4_Amended ==
    ReturnedFromTry =>
        \A hashes \in { [ i \in 1..Len(allResults) |->
                             contentHash(allResults[i]) ] } :
        \A returned \in { [ a \in 1..Len(retrieved) |->
                               contentHash(retrieved[a]) ] } :
        LET first(i) == CHOOSE k \in 1..i :
                           /\ hashes[k] = hashes[i]
                           /\ \A m \in 1..(k - 1) : hashes[m] # hashes[i]
        IN  /\ \A i, j \in 1..Len(allResults) :
                  /\ i < j
                  /\ hashes[i] = hashes[j]
                  /\ allResults[j] # allResults[first(j)]
                  => allResults[j] \notin Range(retrieved)
            /\ \A a, b \in 1..Len(retrieved) :
                  a # b => returned[a] # returned[b]
            /\ \A a \in 1..Len(retrieved) :
                  \E k \in 1..Len(allResults) :
                     /\ hashes[k] = returned[a]
                     /\ retrieved[a] = allResults[first(k)]

\* a main result and a later expansion result with the same key were
\* merged, and only the main one was returned
C4_Witness ==
    /\ ReturnedFromTry
    /\ \E i, j \in 1..Len(allResults) :
          /\ i < j
          /\ contentHash(allResults[i]) = contentHash(allResults[j])
          /\ allResults[i].content # allResults[j].content
          /\ allResults[i] \in Range(retrieved)
          /\ allResults[j] \notin Range(retrieved)

\* a fallback entry as retrieveContext returns it
fromFallbackEntry(result, entry) ==
    /\ result.content = entry.content[1]
    /\ result.metadata \in { entry.metadata, None }

fallbackDataset == Range(mockKb) \cup Range(weatherResults)
                     \cup Range(documentResults)

\* C7 as stated: for "what is RAG?" with the backend unavailable, every
\* returned entry is a fallback entry whose metadata source contains "rag"
\* ignoring case.
C7_Original ==
    /\ RetrieveReturned
    /\ BackendUnavailable
    /\ options.query = qFactual
    /\ options.includeMetadata
    => \A i \in 1..Len(retrieved) :
          /\ \E entry \in fallbackDataset :
                fromFallbackEntry(retrieved[i], entry)
          /\ retrieved[i].metadata # None
          /\ includes(toLowerCase(retrieved[i].metadata[1].source), << "r", "a", "g" >>)

\* C7 amended: for "what is RAG?" with the backend unavailable,
\* retrieveContext returns the first min(topK, 3) entries of the fallback
\* knowledge base in its own order ("RAG Documentation", "AI Best Practices
\* Guide", "RAG Architecture Guide"): the query contains "rag", so every
\* entry passes the fallback filter whether or not its source contains "rag".
C7_Amended ==
    /\ RetrieveReturned
    /\ BackendUnavailable
    /\ options.query = qFactual
    => /\ Len(retrieved) = Min(options.topK, 3)
       /\ \A i \in 1..Len(retrieved) :
             /\ retrieved[i].content = mockKb[i].content[1]
             /\ retrieved[i].metadata =
                   IF options.includeMetadata THEN mockKb[i].metadata ELSE None
             /\ retrieved[i].score = mockKb[i].score

\* "what is RAG?" was answered from the fallback data and the second entry
\* returned is the one whose source does not contain "rag"
C7_Witness ==
    /\ RetrieveReturned
    /\ op = "retrieve"
    /\ client = "mock"
    /\ options.query = qFactual
    /\ options.includeMetadata
    /\ Len(retrieved) = 3
    /\ retrieved[2].metadata[1].source = kb2.metadata[1].source
    /\ ~includes(toLowerCase(kb2.metadata[1].source), << "r", "a", "g" >>)

\* C8: with the backend unavailable and a last user message whose text is
\* non-empty and does not start with a greeting opener,
\* enhancePromptWithRAG returns, without raising, a string that begins with
\* systemPrompt and contains "RETRIEVED CONTEXT".
C8_UnavailableStillEnhances ==
    /\ op = "enhance"
    /\ pc = "done"
    /\ hasUser(messages)
    /\ lastUserText(messages) # << >>
    /\ ~isConversational(lastUserText(messages))
    => /\ client # "none"
       /\ BackendUnavailable =>
             /\ ~raised
             /\ startsWith(enhanced, systemPromptText)
             /\ Len(enhanced) > Len(systemPromptText)
             /\ includes(enhanced, << "R", "E", "T", "R", "I", "E", "V", "E", "D", " ", "C", "O", "N", "T", "E", "X", "T" >>)

\* both backend calls threw and the prompt was still enhanced
C8_Witness ==
    /\ op = "enhance"
    /\ pc = "done"
    /\ client = "sdk_search"
    /\ mainCall.response.kind = "throw"
    /\ expansionCall.response.kind = "throw"
    /\ systemPromptText = promptBrief
    /\ queryText = qFactual
    /\ includes(enhanced, << "R", "E", "T", "R", "I", "E", "V", "E", "D", " ", "C", "O", "N", "T", "E", "X", "T" >>)

\* what retrieveContext returns, computed from the call's own options, the
\* client it obtained and the backend's responses to its two queries
ownRetrieveResult ==
    LET viaBackend == client \in { "sdk_retrieve", "sdk_search" }
        fallbackFor(q) ==
            [ isList |-> TRUE, items |-> getMockRetrievalResults(q) ]
        main == IF viaBackend /\ mainCall.response.kind = "value"
                THEN mainCall.response
                ELSE fallbackFor(options.query)
        expansion ==
            IF viaBackend /\ expansionCall.response.kind = "value"
            THEN expansionCall.response
            ELSE fallbackFor(generateExpansionQuery(options.query))
        merged ==
            [ i \in 1..Len(main.items) |->
                mainFormatted(main.items[i], options.includeMetadata) ]
            \o
            [ i \in 1..Len(expansion.items) |->
                expansionFormatted(expansion.items[i],
                                   options.includeMetadata) ]
    IN  IF main.isList /\ expansion.isList
        THEN slice0(rerankResults(options.query,
                                  removeDuplicateResults(merged)),
                    options.topK)
        ELSE fallbackResults(options.query, options.includeMetadata).value

\* C11: nothing is kept or shared between invocations: the module-level
\* client handle is unset in every reachable state, whatever sequence or
\* interleaving of retrieveContext / enhancePromptWithRAG calls ran, and
\* what a call returns is determined by its own arguments, the client it
\* obtained itself and the backend's responses to its own two queries.
C11_NoSharedState ==
    /\ ragieClient = "unset"
    /\ RetrieveReturned => retrieved = ownRetrieveResult
    /\ op = "enhance" /\ pc = "done" /\ client # "none" =>
          enhanced = resumeEnhance(systemPromptText,
                                   lastUserText(messages),
                                   ownRetrieveResult)

\* a call returned its results while a concurrent invocation held a client
\* of another kind, after earlier calls had completed
C11_Witness ==
    /\ RetrieveReturned
    /\ pc = "done"
    /\ client = "sdk_retrieve"
    /\ otherClient = "mock"
    /\ ragieClient = "unset"
    /\ mainCall.response.kind = "throw"
    /\ expansionCall.response = responseList(<< docA, docB >>)
    /\ Len(retrieved) = MaxTopK

\* the merged list of retrieveContext: the transformed main-query results
\* followed by the transformed expansion-query results
mergedInCallOrder ==
    [ i \in 1..Len(mainCall.result.items) |->
        mainFormatted(mainCall.result.items[i], options.includeMetadata) ]
    \o
    [ i \in 1..Len(expansionCall.result.items) |->
        expansionFormatted(expansionCall.result.items[i],
                           options.includeMetadata) ]

\* C12: retrieveContext issues the main-query call and the expansion-query
\* call together and merges only after both have settled: the two calls are
\* issued in one step, no state past the wait has a call still pending, the
\* merged list is the main-query results followed by the expansion-query
\* results whichever call settled first, and so is the returned list.
C12_MergeAfterBothSettle ==
    /\ (mainCall.st = "none") <=> (expansionCall.st = "none")
    /\ pc = "rc_wait" =>
          /\ mainCall.st \in { "pending", "done" }
          /\ expansionCall.st \in { "pending", "done" }
    /\ pc = "rc_rerank" \/ RetrieveReturned =>
          /\ mainCall.st = "done"
          /\ expansionCall.st = "done"
          /\ { mainCall.settled, expansionCall.settled } = { 1, 2 }
    /\ pc = "rc_rerank" \/ ReturnedFromTry =>
          \A merged \in { mergedInCallOrder } :
          \A deduplicated \in { removeDuplicateResults(merged) } :
             /\ allResults = merged
             /\ uniqueResults = deduplicated
             /\ ReturnedFromTry =>
                   retrieved = slice0(rerankResults(options.query,
                                                    deduplicated),
                                      options.topK)

\* the expansion-query call settled before the main-query call, and the
\* merged list still starts with the main-query results
C12_Witness ==
    /\ ReturnedFromTry
    /\ expansionCall.settled = 1
    /\ mainCall.settled = 2
    /\ mainCall.response = responseList(<< docA, docB >>)
    /\ expansionCall.response =
           responseList(<< docA2, docP2, docP1, docP3 >>)
    /\ Len(allResults) = 6
    /\ allResults[1].content = contentOf(docA)
    /\ allResults[1].source = "main_query"
    /\ allResults[3].source = "expansion_query"
    /\ retrieved # << >>

\* a rerank key that places its result no lower than another's: it
\* contains the query and the other does not, or both agree on that and
\* its score is not smaller
keyNoLower(ka, kb) ==
    \/ ka[1] /\ ~kb[1]
    \/ ka[1] = kb[1] /\ ka[2] >= kb[2]

ranksNoLower(query, a, b) ==
    keyNoLower(rerankKey(query, a), rerankKey(query, b))

\* C13: on the non-fallback path retrieveContext merges, deduplicates,
\* reranks and only then truncates: the returned list is the first topK
\* entries of rerankResults(query, deduplicated merged list), so it is in
\* rerank order (query-containing first, then descending score) and every
\* result the truncation dropped ranks no higher than every returned one,
\* whichever query it came from.
C13_TruncateAfterRerank ==
    ReturnedFromTry =>
        \A deduplicated \in { removeDuplicateResults(allResults) } :
        \A ranked \in { rerankResults(options.query, deduplicated) } :
        LET kept == IF Len(ranked) < options.topK THEN Len(ranked)
                    ELSE options.topK
        IN  /\ Len(retrieved) = kept
            /\ \A i \in 1..kept : retrieved[i] = ranked[i]
            /\ \A returnedKey \in { [ i \in 1..Len(retrieved) |->
                       rerankKey(options.query, retrieved[i]) ] } :
               \A mergedKey \in { [ j \in 1..Len(deduplicated) |->
                       rerankKey(options.query, deduplicated[j]) ] } :
                  /\ \A i, j \in 1..Len(retrieved) :
                        i < j => keyNoLower(returnedKey[i], returnedKey[j])
                  /\ \A i \in 1..Len(retrieved) :
                     \A j \in 1..Len(deduplicated) :
                        countOf(deduplicated[j], retrieved) = 0 =>
                            keyNoLower(returnedKey[i], mergedKey[j])

\* the truncation dropped a main-query result and kept a lower-placed
\* expansion-query result that ranks higher
C13_Witness ==
    /\ ReturnedFromTry
    /\ Len(uniqueResults) > options.topK
    /\ \E i \in 1..Len(uniqueResults) : \E j \in 1..Len(retrieved) :
          /\ uniqueResults[i].source = "main_query"
          /\ countOf(uniqueResults[i], retrieved) = 0
          /\ retrieved[j].source = "expansion_query"
          /\ ~ranksNoLower(options.query, uniqueResults[i], retrieved[j])

\* the text sub stands in s at position p
occursAt(s, sub, p) ==
    /\ p >= 1
    /\ p + Len(sub) - 1 <= Len(s)
    /\ SubSeq(s, p, p + Len(sub) - 1) = sub

\* the opening of the block of the n-th result
documentOpening(results, n) ==
    << "[", "D", "o", "c", "u", "m", "e", "n", "t", " " >> \o numberToString(n) \o << "]", ":", "\n" >> \o results[n].content

\* the blocks of results n, n + 1, ... stand in s from position p on, each
\* after the one before it
RECURSIVE blocksInOrder(_, _, _, _)
blocksInOrder(s, results, n, p) ==
    IF n > Len(results) THEN TRUE
    ELSE LET opening == documentOpening(results, n)
             at == { q \in p..Len(s) : occursAt(s, opening, q) }
         IN  /\ at # { }
             /\ blocksInOrder(s, results, n + 1,
                    (CHOOSE q \in at : \A r \in at : q <= r) + Len(opening))

\* C14: formatRetrievedContext returns the empty string for the empty list
\* only: for a non-empty list, results with empty content and no metadata
\* included, the output is non-empty, starts with "[Document 1]:", holds
\* the blocks "[Document 1]:" .. "[Document n]:" in input order and no
\* other; so once the orchestrator has seen at least one result, its
\* formatted context is non-empty and the prompt it returns is the enhanced
\* one.
C14_EmptyOnlyForEmptyList ==
    /\ op = "format" /\ pc = "done" =>
          /\ (formatOutput = << >>) <=> (formatInput = << >>)
          /\ formatInput # << >> =>
                /\ occursAt(formatOutput, documentOpening(formatInput, 1), 1)
                /\ blocksInOrder(formatOutput, formatInput, 1, 1)
                /\ Cardinality({ p \in 1..Len(formatOutput) :
                       occursAt(formatOutput, << "[", "D", "o", "c", "u", "m", "e", "n", "t", " " >>, p) })
                   = Len(formatInput)
    /\ op = "enhance" /\ pc = "done" /\ RetrieveReturned /\ ~raised
       /\ Len(retrieved) > 0 =>
          /\ formatRetrievedContext(retrieved) # << >>
          /\ enhanced = createEnhancedRAGPrompt(systemPromptText, queryText,
                            formatRetrievedContext(retrieved))
          /\ enhanced # systemPromptText

\* a list whose results include one with empty content and no metadata was
\* formatted to a non-empty text
C14_Witness ==
    /\ op = "format"
    /\ pc = "done"
    /\ Len(formatInput) >= 2
    /\ formatInput[1] = [ content |-> << >>, metadata |-> None,
                          score |-> None ]
    /\ formatInput[2].metadata # None
    /\ formatOutput # << >>

====
